---- MODULE Spec2Model ----
(***************************************************************************)
(* A model of simpleforce: the dynamic record (SObject), the transport     *)
(* adapter it calls back into, and the error classifier.                   *)
(*                                                                         *)
(* The repository holds several editions of the same client.  Three of     *)
(* them are modelled, one per value of the variable edition:               *)
(*   "sobject"  src/sobject.go           (methods return a record and an   *)
(*              error)                                                     *)
(*   "p12"      src/unnamed/part_012     (methods return a record or nil,  *)
(*              with Upsert and the tooling switch)                        *)
(*   "http"     src/force.go:1-361 with src/unnamed/part_011 (the record   *)
(*              holds no client; HTTPClient.CreateSObject(sobj, ...))      *)
(* The error classifier is modelled in two editions of its own,            *)
(* "errorHelpers" (src/errorHelpers.go) and "errstruct"                    *)
(* (src/errorHelpers_test.go:98), under the specification SpecClassifier.  *)
(* SpecField follows linking fields with SObjectField, SpecQuery escapes   *)
(* and sends queries, and SpecSession runs the session (login, tooling     *)
(* switch, Query, ApexREST, ...) together with the records' calls.         *)
(* SpecURL composes request URLs, and SpecShared runs two callers that     *)
(* share one session; pc holds each caller's position in its program and   *)
(* is empty where a single caller makes the calls.                         *)
(*                                                                         *)
(* A Go string is a sequence of tokens; "" is <<>>, "/" is a token of its  *)
(* own, so concatenation, emptiness and path structure are real.           *)
(* A Go interface{} value is a record tagged by its dynamic type in t.     *)
(***************************************************************************)
EXTENDS Integers, Sequences, FiniteSets, TLC

VARIABLES edition, obj, objNil, client, last, pc

vars == <<edition, obj, objNil, client, last, pc>>

(***************************************************************************)
(* Bounds of the model.                                                    *)
(***************************************************************************)
\* the number of data fields (beyond attributes, Id and the client key)
\* that the caller stores in one record with Set
MaxFields == 2

(***************************************************************************)
(* Go values.                                                              *)
(***************************************************************************)
Nil == [t |-> "nil"]
VStr(s) == [t |-> "string", s |-> s]
VNum(n) == [t |-> "number", n |-> n]
VBool(b) == [t |-> "bool", b |-> b]
VMap(m) == [t |-> "map", m |-> m]
\* a value encoding/json cannot marshal (a func or a channel)
VFunc == [t |-> "func"]
VClient == [t |-> "*Client"]

Str(x) == <<x>>
EmptyStr == <<>>
EmptyMap == <<>>

\* m[k] of a Go map: the zero value (nil interface) when k is missing
MapGet(m, k) == IF k \in DOMAIN m THEN m[k] ELSE Nil

\* m[k] = v of a Go map
MapPut(m, k, v) == [x \in (DOMAIN m) \cup {k} |-> IF x = k THEN v ELSE m[x]]

\* delete(m, k), and the same for a set of keys
MapDelete(m, ks) == [x \in (DOMAIN m) \ ks |-> m[x]]

Range(s) == {s[i] : i \in 1..Len(s)}

(***************************************************************************)
(* Constants of the record.                                                *)
(***************************************************************************)
SobjectClientKey == "__client__"
SobjectAttributesKey == "attributes"
sobjectIDKey == "Id"
sobjectExternalIDFieldNameKey == "ExternalIDField"

\* the fixed deny-list; the model keeps every name of the source's list
blacklistedUpdateFields ==
    << "LastModifiedDate", "LastReferencedDate", "IsClosed", "ContactPhone",
       "CreatedById", "CaseNumber", "ContactFax", "ContactMobile", "IsDeleted",
       "LastViewedDate", "SystemModstamp", "CreatedDate", "ContactEmail",
       "ClosedDate", "LastModifiedById" >>

SObjectAttributes(type, url) == [t |-> "SObjectAttributes", Type |-> type, URL |-> url]

(***************************************************************************)
(* Accessors of the record (the same text in every edition).               *)
(***************************************************************************)
InterfaceField(o, key) == MapGet(o, key)

\* a string read as fmt.Sprint would print the entry
StringField_sprint(o, key) ==
    LET value == InterfaceField(o, key)
    IN  IF value.t = "string" THEN value.s ELSE Str("<nil>")

StringField(o, key) ==
    LET value == InterfaceField(o, key)
    IN  IF value.t = "string" THEN value.s ELSE EmptyStr

ID(o) == StringField(o, sobjectIDKey)

\* AttributesField: k = "ptr" a copy of the attributes, k = "nil" no
\* attributes, k = "panic" a failed type assertion mapper["type"].(string)
AttributesField(o) ==
    LET attributes == InterfaceField(o, SobjectAttributesKey)
    IN  CASE attributes.t = "SObjectAttributes" ->
                [k |-> "ptr", Type |-> attributes.Type, URL |-> attributes.URL]
          [] attributes.t = "map" ->
                LET ty == MapGet(attributes.m, "type")
                    url == MapGet(attributes.m, "url")
                IN  IF ty.t # "nil" /\ ty.t # "string" THEN [k |-> "panic"]
                    ELSE IF url.t # "nil" /\ url.t # "string" THEN [k |-> "panic"]
                    ELSE [k |-> "ptr",
                          Type |-> IF ty.t = "nil" THEN EmptyStr ELSE ty.s,
                          URL |-> IF url.t = "nil" THEN EmptyStr ELSE url.s]
          [] OTHER -> [k |-> "nil"]

\* Type() faults exactly when AttributesField does
TypePanics(o) == AttributesField(o).k = "panic"

Type(o) ==
    LET attributes == AttributesField(o)
    IN  IF attributes.k = "ptr" THEN attributes.Type ELSE EmptyStr

\* client(): the bound *Client, or nil
HasClient(o) == InterfaceField(o, SobjectClientKey).t = "*Client"

setClient(o) == MapPut(o, SobjectClientKey, VClient)

setType(o, typeName) ==
    LET attributes == InterfaceField(o, SobjectAttributesKey)
    IN  IF attributes.t = "SObjectAttributes"
        THEN MapPut(o, SobjectAttributesKey, SObjectAttributes(typeName, attributes.URL))
        ELSE MapPut(o, SobjectAttributesKey, SObjectAttributes(typeName, EmptyStr))

\* an identity stored under the wire name of the create response
setID_wireKey(o, id) == MapPut(o, "id", VStr(id))

setID(o, id) == MapPut(o, sobjectIDKey, VStr(id))

ExternalIDFieldName(o) == StringField(o, sobjectExternalIDFieldNameKey)

\* StringField(""): a Go map may hold the key "", the model's records do not
ExternalID(o) ==
    IF ExternalIDFieldName(o) = EmptyStr THEN EmptyStr
    ELSE StringField(o, ExternalIDFieldName(o)[1])


(***************************************************************************)
(* makeCopy: the outbound wire copy, one definition per edition.           *)
(***************************************************************************)
\* a copy that keeps the identity key
makeCopy_keepsId(o) ==
    MapDelete(MapDelete(o, {SobjectClientKey, SobjectAttributesKey}),
              Range(blacklistedUpdateFields))

\* a copy whose per-call list, when given, replaces the fixed list
makeCopy_p11_override(o, blacklistedFields) ==
    LET stripped == MapDelete(o, {SobjectAttributesKey, sobjectIDKey})
    IN  IF Len(blacklistedFields) > 0
        THEN MapDelete(stripped, Range(blacklistedFields))
        ELSE MapDelete(stripped, Range(blacklistedUpdateFields))

\* src/sobject.go
makeCopy(o) ==
    LET stripped == MapDelete(o, {SobjectClientKey, SobjectAttributesKey, sobjectIDKey})
    IN  MapDelete(stripped, Range(blacklistedUpdateFields))

\* src/unnamed/part_012: also drops the external-id name and the field it names
makeCopy_p12(o) ==
    LET stripped == [x \in {key \in DOMAIN o :
                              ~ ( \/ key = SobjectClientKey
                                  \/ key = SobjectAttributesKey
                                  \/ key = sobjectIDKey
                                  \/ key = sobjectExternalIDFieldNameKey
                                  \/ Str(key) = ExternalIDFieldName(o) )} |-> o[x]]
    IN  MapDelete(stripped, Range(blacklistedUpdateFields))

\* src/unnamed/part_011: the record has no client key; a per-call deny-list
makeCopy_p11(o, blacklistedFields) ==
    LET stripped == MapDelete(o, {SobjectAttributesKey, sobjectIDKey})
        fixedGone == MapDelete(stripped, Range(blacklistedUpdateFields))
    IN  MapDelete(fixedGone, Range(blacklistedFields))

(***************************************************************************)
(* encoding/json, as far as the client uses it.                            *)
(***************************************************************************)
VArr(a) == [t |-> "array", a |-> a]

NoErr == [e |-> "nil"]
SyntaxError == [e |-> "json.SyntaxError"]
UnmarshalTypeError == [e |-> "json.UnmarshalTypeError"]
UnsupportedTypeError == [e |-> "json.UnsupportedTypeError"]
\* http.Client.Do failed: no response at all
TransportError == [e |-> "url.Error"]

\* response and request bodies
BNone == [k |-> "none"]
BEmpty == [k |-> "empty"]
BText(s) == [k |-> "text", s |-> s]
BJson(v) == [k |-> "json", v |-> v]
BXml(faultstring, faultcode) ==
    [k |-> "xml", fault |-> TRUE, faultstring |-> faultstring, faultcode |-> faultcode]
\* a well-formed XML document that is no fault envelope
BXmlOther == [k |-> "xml", fault |-> FALSE, faultstring |-> EmptyStr, faultcode |-> EmptyStr]

\* what json.Marshal writes for a value, read back as a decoder would
RECURSIVE JsonOf(_)
JsonOf(v) ==
    CASE v.t = "map" -> VMap([x \in DOMAIN v.m |-> JsonOf(v.m[x])])
      [] v.t = "SObjectAttributes" -> VMap([x \in {"type", "url"} |->
                                  IF x = "type" THEN VStr(v.Type) ELSE VStr(v.URL)])
      [] v.t = "*Client" -> VMap(EmptyMap)
      [] OTHER -> v

RECURSIVE Marshalable(_)
Marshalable(v) ==
    CASE v.t = "func" -> FALSE
      [] v.t = "map" -> \A x \in DOMAIN v.m : Marshalable(v.m[x])
      [] OTHER -> TRUE

\* json.Marshal(reqObj)
Marshal(m) ==
    IF \A x \in DOMAIN m : Marshalable(m[x])
    THEN [err |-> NoErr, data |-> BJson(JsonOf(VMap(m)))]
    ELSE [err |-> UnsupportedTypeError, data |-> BNone]

\* a struct field tagged json:"id" takes the key "id", or a key equal to it
\* but for case
FoldGet(m, name, folded) ==
    IF name \in DOMAIN m THEN m[name] ELSE MapGet(m, folded)

\* json.Unmarshal(respData, &respVal), respVal struct{ID string; Success bool}
UnmarshalCreateResponse(body) ==
    LET zero == [err |-> NoErr, ID |-> EmptyStr, Success |-> FALSE, isNull |-> FALSE]
    IN  IF body.k # "json" THEN [zero EXCEPT !.err = SyntaxError]
        ELSE CASE body.v.t = "nil" -> [zero EXCEPT !.isNull = TRUE]
               [] body.v.t = "map" ->
                    LET id == FoldGet(body.v.m, "id", "Id")
                        su == FoldGet(body.v.m, "success", "Success")
                    IN  [err |-> IF id.t \in {"nil", "string"} /\ su.t \in {"nil", "bool"}
                                 THEN NoErr ELSE UnmarshalTypeError,
                         ID |-> IF id.t = "string" THEN id.s ELSE EmptyStr,
                         Success |-> IF su.t = "bool" THEN su.b ELSE FALSE,
                         isNull |-> FALSE]
               [] OTHER -> [zero EXCEPT !.err = UnmarshalTypeError]

\* json.Unmarshal(data, obj), obj *SObject: an object is merged into the
\* map (existing entries are kept), null sets the map to nil
UnmarshalSObject(body, o, isNil) ==
    IF body.k # "json" THEN [err |-> SyntaxError, obj |-> o, objNil |-> isNil]
    ELSE CASE body.v.t = "nil" -> [err |-> NoErr, obj |-> EmptyMap, objNil |-> TRUE]
           [] body.v.t = "map" ->
                [err |-> NoErr,
                 obj |-> [x \in (DOMAIN o) \cup (DOMAIN body.v.m) |->
                            IF x \in DOMAIN body.v.m THEN body.v.m[x] ELSE o[x]],
                 objNil |-> FALSE]
           [] OTHER -> [err |-> UnmarshalTypeError, obj |-> o, objNil |-> isNil]

\* json.Unmarshal(data, &meta), meta SObjectMeta
UnmarshalMeta(body) ==
    IF body.k # "json" THEN SyntaxError
    ELSE IF body.v.t \in {"nil", "map"} THEN NoErr ELSE UnmarshalTypeError


(***************************************************************************)
(* Error values.  errors.New yields a value equal only to itself: the      *)
(* package's sentinels are told apart by name, a classifier's fresh error  *)
(* by its message.                                                         *)
(***************************************************************************)
Sentinel(name, msg) == [e |-> "sentinel", name |-> name, msg |-> Str(msg)]
ERR_FAILURE == Sentinel("ERR_FAILURE", "general failure")
ERR_AUTHENTICATION == Sentinel("ERR_AUTHENTICATION", "authentication failure")
ERR_DATA_NOT_FOUND == Sentinel("ERR_DATA_NOT_FOUND", "data not found")
ErrFailure == Sentinel("ErrFailure", "general failure")
ErrAuthentication == Sentinel("ErrAuthentication", "authentication failure")
ErrInvalidSObject(msg) == [e |-> "ErrInvalidSObject", msg |-> Str(msg)]
\* errors.New(message), fmt.Errorf(format, ...) without %w
ErrorsNew(message) == [e |-> "errorString", msg |-> message]
\* fmt.Errorf(`{"error" : %w, "code": %d}`, err, code)
WrapWithCode(err, code) == [e |-> "wrapError", err |-> err, code |-> code]
\* errors.New("request was unsuccessful") of setIDFromResponseData
ErrUnsuccessful == ErrorsNew(Str("request was unsuccessful"))

logPrefix == "[simpleforce]"

\* does the string s hold sub as a run of consecutive tokens
Contains(s, sub) ==
    \E i \in 0..(Len(s) - Len(sub)) : SubSeq(s, i + 1, i + Len(sub)) = sub

(***************************************************************************)
(* The error classifier.                                                   *)
(***************************************************************************)
\* json.Unmarshal(responseBody, &jsonError), jsonError []struct{Message, ErrorCode}
DecodeJsonError(body) ==
    LET elem(v) == [Message |-> IF v.t = "map" /\ MapGet(v.m, "message").t = "string"
                                THEN v.m["message"].s ELSE EmptyStr,
                    ErrorCode |-> IF v.t = "map" /\ MapGet(v.m, "errorCode").t = "string"
                                  THEN v.m["errorCode"].s ELSE EmptyStr]
        fits(v) == \/ v.t = "nil"
                   \/ /\ v.t = "map"
                      /\ MapGet(v.m, "message").t \in {"nil", "string"}
                      /\ MapGet(v.m, "errorCode").t \in {"nil", "string"}
    IN  IF body.k # "json" THEN [err |-> SyntaxError, elems |-> <<>>]
        ELSE CASE body.v.t = "nil" -> [err |-> NoErr, elems |-> <<>>]
               [] body.v.t = "array" ->
                    [err |-> IF \A i \in 1..Len(body.v.a) : fits(body.v.a[i])
                             THEN NoErr ELSE UnmarshalTypeError,
                     elems |-> [i \in 1..Len(body.v.a) |-> elem(body.v.a[i])]]
               [] OTHER -> [err |-> UnmarshalTypeError, elems |-> <<>>]

\* xml.Unmarshal(responseBody, &xmlError): any well-formed document decodes,
\* the fields are those found under Body>Fault
DecodeXmlError(body) ==
    IF body.k = "xml"
    THEN [err |-> NoErr, Message |-> body.faultstring, ErrorCode |-> body.faultcode]
    ELSE [err |-> [e |-> "xml.SyntaxError"], Message |-> EmptyStr, ErrorCode |-> EmptyStr]

\* logPrefix+" Error. http code: %v Error Message:  %v Error Code: %v"
ErrorText(statusCode, message, errorCode) ==
    <<logPrefix, " Error. http code: ", ToString(statusCode), " Error Message:  ">>
        \o message \o <<" Error Code: ">> \o errorCode

Panic == [k |-> "panic"]
Returned(err) == [k |-> "return", err |-> err]

\* src/errorHelpers.go (and, to the letter of their logic, the copies in
\* part_004, part_003:498 and errorHelpers_test.go:166): element 0 of the
\* decoded array is read whenever the JSON decodes
ParseSalesforceError(statusCode, responseBody) ==
    LET j == DecodeJsonError(responseBody)
        x == DecodeXmlError(responseBody)
    IN  IF j.err = NoErr
        THEN IF Len(j.elems) = 0 THEN Panic
             ELSE Returned(ErrorsNew(ErrorText(statusCode, j.elems[1].Message,
                                               j.elems[1].ErrorCode)))
        ELSE IF x.err = NoErr
             THEN Returned(ErrorsNew(ErrorText(statusCode, x.Message, x.ErrorCode)))
             ELSE Returned(ErrFailure)

\* the edition of src/errorHelpers_test.go:98-131: a SalesforceError value
SalesforceError(message, httpCode, errorCode, errorMessage) ==
    [e |-> "SalesforceError", Message |-> message, HttpCode |-> httpCode,
     ErrorCode |-> errorCode, ErrorMessage |-> errorMessage]

\* string(responseBody) of a body, as far as the model tells bodies apart
BodyText(body) ==
    CASE body.k = "text" -> body.s
      [] body.k = "empty" -> EmptyStr
      [] OTHER -> Str("<the body's bytes>")

ParseSalesforceError_struct(statusCode, responseBody) ==
    LET j == DecodeJsonError(responseBody)
        x == DecodeXmlError(responseBody)
    IN  IF j.err = NoErr
        THEN IF Len(j.elems) = 0 THEN Panic
             ELSE Returned(SalesforceError(
                      ErrorText(statusCode, j.elems[1].Message, j.elems[1].ErrorCode),
                      statusCode, j.elems[1].ErrorCode, j.elems[1].Message))
        ELSE IF x.err = NoErr
             THEN Returned(SalesforceError(
                      ErrorText(statusCode, x.Message, x.ErrorCode),
                      statusCode, x.ErrorCode, x.Message))
             ELSE Returned(SalesforceError(BodyText(responseBody), statusCode,
                                           EmptyStr, EmptyStr))

(***************************************************************************)
(* The session (Client of src/force.go:944, HTTPClient of src/force.go:40).*)
(***************************************************************************)
DefaultAPIVersion == Str("54.0")
DefaultAPIVersion_http == Str("v43.0")
DefaultURL == <<"https:", "/", "/", "login.salesforce.com">>

\* strings.Replace(s, tok, "", -1)
ReplaceAll(s, tok) == SelectSeq(s, LAMBDA x : x # tok)

TrimSuffixSlash(s) == IF Len(s) > 0 /\ s[Len(s)] = "/" THEN SubSeq(s, 1, Len(s) - 1) ELSE s

NewClient(url, apiVersion) ==
    [sessionID |-> EmptyStr, instanceURL |-> EmptyStr, baseURL |-> TrimSuffixSlash(url),
     apiVersion |-> apiVersion, useToolingAPI |-> FALSE]

NewHTTPClient(baseURL, apiVersion) ==
    [sessionID |-> EmptyStr, instanceURL |-> EmptyStr, baseURL |-> TrimSuffixSlash(baseURL),
     apiVersion |-> apiVersion, useToolingAPI |-> FALSE]

\* Client.makeURL: stores the version without its "v", then formats
makeURL(c, req) ==
    LET version == ReplaceAll(c.apiVersion, "v")
    IN  [client |-> [c EXCEPT !.apiVersion = version],
         url |-> c.instanceURL \o <<"/", "services", "/", "data", "/", "v">>
                   \o version \o <<"/">> \o req]

\* HTTPClient.makeURL
makeURL_http(h, url) ==
    h.baseURL \o <<"/", "services", "/", "data", "/">> \o h.apiVersion \o <<"/">> \o url

\* what the server answers: arrived = FALSE when no response came back
Resp(status, body) == [arrived |-> TRUE, status |-> status, body |-> body]
ConnFail == [arrived |-> FALSE, status |-> 0, body |-> BNone]
NoResp == [arrived |-> FALSE, status |-> -1, body |-> BNone]

Request(method, url, body, auth) ==
    [method |-> method, url |-> url, body |-> body, auth |-> auth,
     contentType |-> "application/json", duplicateRuleHeader |-> FALSE]

\* Client.httpRequest (src/force.go:1146).  The edition of src/sobject.go
\* calls a three-valued httpRequest that also returns the status code; it is
\* this one with code = the response's status.
httpRequest(c, method, url, body, resp) ==
    LET req == Request(method, url, body, <<"Bearer ">> \o c.sessionID)
        theError == ParseSalesforceError(resp.status, resp.body)
    IN  IF ~resp.arrived
        THEN [k |-> "err", err |-> TransportError, code |-> 0, data |-> BNone, req |-> req]
        ELSE IF resp.status < 200 \/ resp.status > 299
        THEN IF theError.k = "panic"
             THEN [k |-> "panic", err |-> NoErr, code |-> resp.status, data |-> BNone, req |-> req]
             ELSE [k |-> "err", err |-> theError.err, code |-> resp.status,
                   data |-> BNone, req |-> req]
        ELSE [k |-> "ok", err |-> NoErr, code |-> resp.status, data |-> resp.body, req |-> req]

\* HTTPClient.request (src/force.go:269): no credential header of its own
request(h, method, url, body, allowSave, resp) ==
    LET req == [Request(method, url, body, EmptyStr) EXCEPT !.duplicateRuleHeader = allowSave]
        theError == ParseSalesforceError(resp.status, resp.body)
    IN  IF ~resp.arrived
        THEN [k |-> "err", err |-> TransportError, code |-> 0, data |-> BNone, req |-> req]
        ELSE IF resp.status < 200 \/ resp.status >= 300
        THEN IF theError.k = "panic"
             THEN [k |-> "panic", err |-> NoErr, code |-> resp.status, data |-> BNone, req |-> req]
             ELSE [k |-> "err", err |-> theError.err, code |-> resp.status,
                   data |-> BNone, req |-> req]
        ELSE [k |-> "ok", err |-> NoErr, code |-> resp.status, data |-> resp.body, req |-> req]


(***************************************************************************)
(* Calls and their outcomes.                                               *)
(***************************************************************************)
\* a variadic id ...string: no argument (a nil slice), an empty slice
\* spread into the call, or one id
NoArg == [k |-> "nil", v |-> <<>>]
EmptyArgs == [k |-> "empty", v |-> <<>>]
Arg(s) == [k |-> "ids", v |-> <<s>>]

\* the outcome of one call: the record and session after it, how it ended
\* (out: "return" or "panic"), what it returned (ret: "obj" the receiver,
\* "nil", "meta" a fresh metadata map, "none" for a method with no such
\* result), the error returned, the requests sent and the response read
Outcome(o, oNil, c, out, ret, err, reqs, resp) ==
    [obj |-> o, objNil |-> oNil, client |-> c, out |-> out, ret |-> ret,
     err |-> err, reqs |-> reqs, resp |-> resp]

(***************************************************************************)
(* The record's operations, edition src/sobject.go.                        *)
(***************************************************************************)
SObject_Describe(o, oNil, c, resp) ==
    IF TypePanics(o) THEN Outcome(o, oNil, c, "panic", "none", NoErr, <<>>, NoResp)
    ELSE IF Type(o) = EmptyStr \/ ~HasClient(o)
    THEN Outcome(o, oNil, c, "return", "nil", ERR_DATA_NOT_FOUND, <<>>, NoResp)
    ELSE
      LET u == makeURL(c, <<"sobjects", "/">> \o Type(o) \o <<"/", "describe">>)
          h == httpRequest(u.client, "GET", u.url, BNone, resp)
      IN  CASE h.k = "panic" ->
                 Outcome(o, oNil, u.client, "panic", "none", NoErr, <<h.req>>, resp)
            [] h.k = "err" ->
                 Outcome(o, oNil, u.client, "return", "nil",
                         WrapWithCode(h.err, h.code), <<h.req>>, resp)
            [] OTHER ->
                 IF UnmarshalMeta(h.data) # NoErr
                 THEN Outcome(o, oNil, u.client, "return", "nil",
                              UnmarshalMeta(h.data), <<h.req>>, resp)
                 ELSE Outcome(o, oNil, u.client, "return", "meta", NoErr, <<h.req>>, resp)

\* a Get that asks for the record's own id whatever the argument
SObject_Get_oid_own(o, id) == ID(o)

\* the id Get asks for: the argument when one is given, else the record's
SObject_Get_oid(o, id) == IF Len(id.v) > 0 THEN id.v[1] ELSE ID(o)

SObject_Get(o, oNil, c, id, resp) ==
    IF TypePanics(o) THEN Outcome(o, oNil, c, "panic", "none", NoErr, <<>>, NoResp)
    ELSE IF Type(o) = EmptyStr \/ ~HasClient(o)
    THEN Outcome(o, oNil, c, "return", "nil", ERR_DATA_NOT_FOUND, <<>>, NoResp)
    ELSE IF SObject_Get_oid(o, id) = EmptyStr
    THEN Outcome(o, oNil, c, "return", "nil", ERR_DATA_NOT_FOUND, <<>>, NoResp)
    ELSE
      LET u == makeURL(c, <<"sobjects", "/">> \o Type(o) \o <<"/">> \o SObject_Get_oid(o, id))
          h == httpRequest(u.client, "GET", u.url, BNone, resp)
          d == UnmarshalSObject(h.data, o, oNil)
      IN  CASE h.k = "panic" ->
                 Outcome(o, oNil, u.client, "panic", "none", NoErr, <<h.req>>, resp)
            [] h.k = "err" ->
                 Outcome(o, oNil, u.client, "return", "nil",
                         WrapWithCode(h.err, h.code), <<h.req>>, resp)
            [] OTHER ->
                 IF d.err # NoErr
                 THEN \* json decode failed: return nil, nil
                      Outcome(o, oNil, u.client, "return", "nil", NoErr, <<h.req>>, resp)
                 ELSE Outcome(d.obj, d.objNil, u.client, "return", "obj", NoErr,
                              <<h.req>>, resp)

SObject_Create(o, oNil, c, resp) ==
    IF TypePanics(o) THEN Outcome(o, oNil, c, "panic", "none", NoErr, <<>>, NoResp)
    ELSE IF Type(o) = EmptyStr \/ ~HasClient(o)
    THEN Outcome(o, oNil, c, "return", "nil", ERR_DATA_NOT_FOUND, <<>>, NoResp)
    ELSE IF Marshal(makeCopy(o)).err # NoErr
    THEN Outcome(o, oNil, c, "return", "nil", Marshal(makeCopy(o)).err, <<>>, NoResp)
    ELSE
      LET u == makeURL(c, <<"sobjects", "/">> \o Type(o) \o <<"/">>)
          h == httpRequest(u.client, "POST", u.url, Marshal(makeCopy(o)).data, resp)
          respVal == UnmarshalCreateResponse(h.data)
      IN  CASE h.k = "panic" ->
                 Outcome(o, oNil, u.client, "panic", "none", NoErr, <<h.req>>, resp)
            [] h.k = "err" ->
                 Outcome(o, oNil, u.client, "return", "nil",
                         WrapWithCode(h.err, h.code), <<h.req>>, resp)
            [] OTHER ->
                 IF respVal.err # NoErr
                 THEN Outcome(o, oNil, u.client, "return", "nil", respVal.err, <<h.req>>, resp)
                 ELSE IF ~respVal.Success \/ respVal.ID = EmptyStr
                 THEN \* return nil, err with err the decoder's nil
                      Outcome(o, oNil, u.client, "return", "nil", respVal.err, <<h.req>>, resp)
                 ELSE Outcome(setID(o, respVal.ID), oNil, u.client, "return", "obj",
                              respVal.err, <<h.req>>, resp)

SObject_Update(o, oNil, c, resp) ==
    IF TypePanics(o) THEN Outcome(o, oNil, c, "panic", "none", NoErr, <<>>, NoResp)
    ELSE IF Type(o) = EmptyStr \/ ~HasClient(o) \/ ID(o) = EmptyStr
    THEN Outcome(o, oNil, c, "return", "nil", ERR_DATA_NOT_FOUND, <<>>, NoResp)
    ELSE IF Marshal(makeCopy(o)).err # NoErr
    THEN Outcome(o, oNil, c, "return", "nil", Marshal(makeCopy(o)).err, <<>>, NoResp)
    ELSE
      LET queryBase == IF c.useToolingAPI THEN <<"tooling", "/", "sobjects", "/">>
                       ELSE <<"sobjects", "/">>
          u == makeURL(c, queryBase \o Type(o) \o <<"/">> \o ID(o))
          h == httpRequest(u.client, "PATCH", u.url, Marshal(makeCopy(o)).data, resp)
      IN  CASE h.k = "panic" ->
                 Outcome(o, oNil, u.client, "panic", "none", NoErr, <<h.req>>, resp)
            [] h.k = "err" ->
                 Outcome(o, oNil, u.client, "return", "nil",
                         WrapWithCode(h.err, h.code), <<h.req>>, resp)
            [] OTHER ->
                 Outcome(o, oNil, u.client, "return", "obj", NoErr, <<h.req>>, resp)

\* the id Delete checks: id[0] whenever the slice is not nil
SObject_Delete_oid(o, id) == IF id.k # "nil" THEN id.v[1] ELSE ID(o)

\* the path Delete sends the request to
SObject_Delete_path(o, id) == <<"sobjects", "/">> \o Type(o) \o <<"/">> \o ID(o)

SObject_Delete(o, oNil, c, id, resp) ==
    IF TypePanics(o) THEN Outcome(o, oNil, c, "panic", "none", NoErr, <<>>, NoResp)
    ELSE IF Type(o) = EmptyStr \/ ~HasClient(o)
    THEN Outcome(o, oNil, c, "return", "none", ERR_FAILURE, <<>>, NoResp)
    ELSE IF id.k # "nil" /\ Len(id.v) = 0
    THEN \* id[0] of an empty slice: index out of range
         Outcome(o, oNil, c, "panic", "none", NoErr, <<>>, NoResp)
    ELSE IF SObject_Delete_oid(o, id) = EmptyStr
    THEN Outcome(o, oNil, c, "return", "none", ERR_FAILURE, <<>>, NoResp)
    ELSE
      LET u == makeURL(c, SObject_Delete_path(o, id))
          h == httpRequest(u.client, "DELETE", u.url, BNone, resp)
      IN  CASE h.k = "panic" ->
                 Outcome(o, oNil, u.client, "panic", "none", NoErr, <<h.req>>, resp)
            [] h.k = "err" ->
                 Outcome(o, oNil, u.client, "return", "none",
                         WrapWithCode(h.err, h.code), <<h.req>>, resp)
            [] OTHER ->
                 Outcome(o, oNil, u.client, "return", "none", NoErr, <<h.req>>, resp)


(***************************************************************************)
(* The record's operations, edition src/unnamed/part_012: a method returns *)
(* the receiver or nil, and no error value (Delete returns only an error). *)
(***************************************************************************)
SObject_Describe_p12(o, oNil, c, resp) ==
    IF TypePanics(o) THEN Outcome(o, oNil, c, "panic", "none", NoErr, <<>>, NoResp)
    ELSE IF Type(o) = EmptyStr \/ ~HasClient(o)
    THEN Outcome(o, oNil, c, "return", "nil", NoErr, <<>>, NoResp)
    ELSE
      LET u == makeURL(c, <<"sobjects", "/">> \o Type(o) \o <<"/", "describe">>)
          h == httpRequest(u.client, "GET", u.url, BNone, resp)
      IN  CASE h.k = "panic" ->
                 Outcome(o, oNil, u.client, "panic", "none", NoErr, <<h.req>>, resp)
            [] h.k = "err" ->
                 Outcome(o, oNil, u.client, "return", "nil", NoErr, <<h.req>>, resp)
            [] OTHER ->
                 IF UnmarshalMeta(h.data) # NoErr
                 THEN Outcome(o, oNil, u.client, "return", "nil", NoErr, <<h.req>>, resp)
                 ELSE Outcome(o, oNil, u.client, "return", "meta", NoErr, <<h.req>>, resp)

SObject_Get_p12(o, oNil, c, id, resp) ==
    IF TypePanics(o) THEN Outcome(o, oNil, c, "panic", "none", NoErr, <<>>, NoResp)
    ELSE IF Type(o) = EmptyStr \/ ~HasClient(o)
    THEN Outcome(o, oNil, c, "return", "nil", NoErr, <<>>, NoResp)
    ELSE IF SObject_Get_oid(o, id) = EmptyStr
    THEN Outcome(o, oNil, c, "return", "nil", NoErr, <<>>, NoResp)
    ELSE
      LET u == makeURL(c, <<"sobjects", "/">> \o Type(o) \o <<"/">> \o SObject_Get_oid(o, id))
          h == httpRequest(u.client, "GET", u.url, BNone, resp)
          d == UnmarshalSObject(h.data, o, oNil)
      IN  CASE h.k = "panic" ->
                 Outcome(o, oNil, u.client, "panic", "none", NoErr, <<h.req>>, resp)
            [] h.k = "err" ->
                 Outcome(o, oNil, u.client, "return", "nil", NoErr, <<h.req>>, resp)
            [] OTHER ->
                 IF d.err # NoErr
                 THEN Outcome(o, oNil, u.client, "return", "nil", NoErr, <<h.req>>, resp)
                 ELSE Outcome(d.obj, d.objNil, u.client, "return", "obj", NoErr,
                              <<h.req>>, resp)

\* setIDFromResponseData: the error it returns and the record it leaves
\* an identity taken from the response before its success is looked at
setIDFromResponseData_eager(o, respData) ==
    LET respVal == UnmarshalCreateResponse(respData)
    IN  IF respVal.err # NoErr THEN [err |-> respVal.err, obj |-> o]
        ELSE IF ~respVal.Success \/ respVal.ID = EmptyStr
        THEN [err |-> ErrUnsuccessful, obj |-> setID(o, respVal.ID)]
        ELSE [err |-> NoErr, obj |-> setID(o, respVal.ID)]

setIDFromResponseData(o, respData) ==
    LET respVal == UnmarshalCreateResponse(respData)
    IN  IF respVal.err # NoErr THEN [err |-> respVal.err, obj |-> o]
        ELSE IF ~respVal.Success \/ respVal.ID = EmptyStr
        THEN [err |-> ErrUnsuccessful, obj |-> o]
        ELSE [err |-> NoErr, obj |-> setID(o, respVal.ID)]

SObject_Create_p12(o, oNil, c, resp) ==
    IF TypePanics(o) THEN Outcome(o, oNil, c, "panic", "none", NoErr, <<>>, NoResp)
    ELSE IF Type(o) = EmptyStr \/ ~HasClient(o)
    THEN Outcome(o, oNil, c, "return", "nil", NoErr, <<>>, NoResp)
    ELSE IF Marshal(makeCopy_p12(o)).err # NoErr
    THEN Outcome(o, oNil, c, "return", "nil", NoErr, <<>>, NoResp)
    ELSE
      LET u == makeURL(c, <<"sobjects", "/">> \o Type(o) \o <<"/">>)
          h == httpRequest(u.client, "POST", u.url, Marshal(makeCopy_p12(o)).data, resp)
          r == setIDFromResponseData(o, h.data)
      IN  CASE h.k = "panic" ->
                 Outcome(o, oNil, u.client, "panic", "none", NoErr, <<h.req>>, resp)
            [] h.k = "err" ->
                 Outcome(o, oNil, u.client, "return", "nil", NoErr, <<h.req>>, resp)
            [] OTHER ->
                 IF r.err # NoErr
                 THEN Outcome(r.obj, oNil, u.client, "return", "nil", NoErr, <<h.req>>,
                              resp)
                 ELSE Outcome(r.obj, oNil, u.client, "return", "obj", NoErr, <<h.req>>, resp)

SObject_Update_p12(o, oNil, c, resp) ==
    IF TypePanics(o) THEN Outcome(o, oNil, c, "panic", "none", NoErr, <<>>, NoResp)
    ELSE IF Type(o) = EmptyStr \/ ~HasClient(o) \/ ID(o) = EmptyStr
    THEN Outcome(o, oNil, c, "return", "nil", NoErr, <<>>, NoResp)
    ELSE IF Marshal(makeCopy_p12(o)).err # NoErr
    THEN Outcome(o, oNil, c, "return", "nil", NoErr, <<>>, NoResp)
    ELSE
      LET queryBase == IF c.useToolingAPI THEN <<"tooling", "/", "sobjects", "/">>
                       ELSE <<"sobjects", "/">>
          u == makeURL(c, queryBase \o Type(o) \o <<"/">> \o ID(o))
          h == httpRequest(u.client, "PATCH", u.url, Marshal(makeCopy_p12(o)).data, resp)
      IN  CASE h.k = "panic" ->
                 Outcome(o, oNil, u.client, "panic", "none", NoErr, <<h.req>>, resp)
            [] h.k = "err" ->
                 Outcome(o, oNil, u.client, "return", "nil", NoErr, <<h.req>>, resp)
            [] OTHER ->
                 Outcome(o, oNil, u.client, "return", "obj", NoErr, <<h.req>>, resp)

\* the body of a 2xx answer: len(respData) > 0
HasBody(data) == data.k # "empty" /\ data.k # "none"

SObject_Upsert(o, oNil, c, resp) ==
    IF TypePanics(o) THEN Outcome(o, oNil, c, "panic", "none", NoErr, <<>>, NoResp)
    ELSE IF \/ Type(o) = EmptyStr \/ ~HasClient(o)
            \/ ExternalIDFieldName(o) = EmptyStr \/ ExternalID(o) = EmptyStr
    THEN Outcome(o, oNil, c, "return", "nil", NoErr, <<>>, NoResp)
    ELSE IF Marshal(makeCopy_p12(o)).err # NoErr
    THEN Outcome(o, oNil, c, "return", "nil", NoErr, <<>>, NoResp)
    ELSE
      LET queryBase == IF c.useToolingAPI THEN <<"tooling", "/", "sobjects", "/">>
                       ELSE <<"sobjects", "/">>
          u == makeURL(c, queryBase \o Type(o) \o <<"/">> \o ExternalIDFieldName(o)
                            \o <<"/">> \o ExternalID(o))
          h == httpRequest(u.client, "PATCH", u.url, Marshal(makeCopy_p12(o)).data, resp)
          r == setIDFromResponseData(o, h.data)
      IN  CASE h.k = "panic" ->
                 Outcome(o, oNil, u.client, "panic", "none", NoErr, <<h.req>>, resp)
            [] h.k = "err" ->
                 Outcome(o, oNil, u.client, "return", "nil", NoErr, <<h.req>>, resp)
            [] OTHER ->
                 IF HasBody(h.data)
                 THEN IF r.err # NoErr
                      THEN Outcome(r.obj, oNil, u.client, "return", "nil", NoErr,
                                   <<h.req>>, resp)
                      ELSE Outcome(r.obj, oNil, u.client, "return", "obj", NoErr,
                                   <<h.req>>, resp)
                 ELSE Outcome(o, oNil, u.client, "return", "obj", NoErr, <<h.req>>, resp)

SObject_Delete_p12(o, oNil, c, id, resp) ==
    IF TypePanics(o) THEN Outcome(o, oNil, c, "panic", "none", NoErr, <<>>, NoResp)
    ELSE IF Type(o) = EmptyStr \/ ~HasClient(o)
    THEN Outcome(o, oNil, c, "return", "none", ErrFailure, <<>>, NoResp)
    ELSE IF id.k # "nil" /\ Len(id.v) = 0
    THEN Outcome(o, oNil, c, "panic", "none", NoErr, <<>>, NoResp)
    ELSE IF SObject_Delete_oid(o, id) = EmptyStr
    THEN Outcome(o, oNil, c, "return", "none", ErrFailure, <<>>, NoResp)
    ELSE
      LET u == makeURL(c, SObject_Delete_path(o, id))
          h == httpRequest(u.client, "DELETE", u.url, BNone, resp)
      IN  CASE h.k = "panic" ->
                 Outcome(o, oNil, u.client, "panic", "none", NoErr, <<h.req>>, resp)
            [] h.k = "err" ->
                 Outcome(o, oNil, u.client, "return", "none", h.err, <<h.req>>, resp)
            [] OTHER ->
                 Outcome(o, oNil, u.client, "return", "none", NoErr, <<h.req>>, resp)

(***************************************************************************)
(* The session's record operations, edition src/force.go:1-361 with the    *)
(* record of src/unnamed/part_011: each returns an error, or nil.          *)
(***************************************************************************)
HTTPClient_DescribeSObject(o, oNil, h, resp) ==
    IF TypePanics(o) THEN Outcome(o, oNil, h, "panic", "none", NoErr, <<>>, NoResp)
    ELSE IF Len(Type(o)) = 0
    THEN Outcome(o, oNil, h, "return", "nil", ErrInvalidSObject("Type is empty"), <<>>, NoResp)
    ELSE
      LET url == makeURL_http(h, <<"sobjects", "/">> \o Type(o) \o <<"/", "describe">>)
          res == request(h, "GET", url, BNone, FALSE, resp)
      IN  CASE res.k = "panic" ->
                 Outcome(o, oNil, h, "panic", "none", NoErr, <<res.req>>, resp)
            [] res.k = "err" ->
                 Outcome(o, oNil, h, "return", "nil", res.err, <<res.req>>, resp)
            [] OTHER ->
                 IF UnmarshalMeta(res.data) # NoErr
                 THEN Outcome(o, oNil, h, "return", "nil", UnmarshalMeta(res.data),
                              <<res.req>>, resp)
                 ELSE Outcome(o, oNil, h, "return", "meta", NoErr, <<res.req>>, resp)

HTTPClient_CreateSObject(o, oNil, h, blacklistedFields, allowDuplicates, resp) ==
    IF TypePanics(o) THEN Outcome(o, oNil, h, "panic", "none", NoErr, <<>>, NoResp)
    ELSE IF Len(Type(o)) = 0
    THEN Outcome(o, oNil, h, "return", "none", ErrInvalidSObject("Type is empty"), <<>>, NoResp)
    ELSE IF Marshal(makeCopy_p11(o, blacklistedFields)).err # NoErr
    THEN Outcome(o, oNil, h, "return", "none",
                 Marshal(makeCopy_p11(o, blacklistedFields)).err, <<>>, NoResp)
    ELSE
      LET url == makeURL_http(h, <<"sobjects", "/">> \o Type(o) \o <<"/">>)
          res == request(h, "POST", url, Marshal(makeCopy_p11(o, blacklistedFields)).data,
                         allowDuplicates, resp)
          resData == UnmarshalCreateResponse(res.data)
      IN  CASE res.k = "panic" ->
                 Outcome(o, oNil, h, "panic", "none", NoErr, <<res.req>>, resp)
            [] res.k = "err" ->
                 Outcome(o, oNil, h, "return", "none", res.err, <<res.req>>, resp)
            [] OTHER ->
                 IF resData.err # NoErr
                 THEN Outcome(o, oNil, h, "return", "none", resData.err, <<res.req>>, resp)
                 ELSE IF resData.isNull
                 THEN \* resData is a nil pointer: resData.Success faults
                      Outcome(o, oNil, h, "panic", "none", NoErr, <<res.req>>, resp)
                 ELSE IF ~resData.Success \/ resData.ID = EmptyStr
                 THEN Outcome(o, oNil, h, "return", "none", ErrFailure, <<res.req>>, resp)
                 ELSE Outcome(setID(o, resData.ID), oNil, h, "return", "none", NoErr,
                              <<res.req>>, resp)

HTTPClient_GetSObject(o, oNil, h, resp) ==
    IF TypePanics(o) THEN Outcome(o, oNil, h, "panic", "none", NoErr, <<>>, NoResp)
    ELSE IF Len(Type(o)) = 0
    THEN Outcome(o, oNil, h, "return", "none", ErrInvalidSObject("Type is empty"), <<>>, NoResp)
    ELSE IF Len(ID(o)) = 0
    THEN Outcome(o, oNil, h, "return", "none", ErrInvalidSObject("Id is empty"), <<>>, NoResp)
    ELSE
      LET url == makeURL_http(h, <<"sobjects", "/">> \o Type(o) \o <<"/">> \o ID(o))
          res == request(h, "GET", url, BNone, FALSE, resp)
          d == UnmarshalSObject(res.data, o, oNil)
      IN  CASE res.k = "panic" ->
                 Outcome(o, oNil, h, "panic", "none", NoErr, <<res.req>>, resp)
            [] res.k = "err" ->
                 Outcome(o, oNil, h, "return", "none", res.err, <<res.req>>, resp)
            [] OTHER ->
                 IF d.err # NoErr
                 THEN Outcome(o, oNil, h, "return", "none", d.err, <<res.req>>, resp)
                 ELSE Outcome(d.obj, d.objNil, h, "return", "none", NoErr, <<res.req>>, resp)

HTTPClient_UpdateSObject(o, oNil, h, blacklistedFields, resp) ==
    IF TypePanics(o) THEN Outcome(o, oNil, h, "panic", "none", NoErr, <<>>, NoResp)
    ELSE IF Len(Type(o)) = 0
    THEN Outcome(o, oNil, h, "return", "none", ErrInvalidSObject("Type is empty"), <<>>, NoResp)
    ELSE IF Len(ID(o)) = 0
    THEN Outcome(o, oNil, h, "return", "none", ErrInvalidSObject("Id is empty"), <<>>, NoResp)
    ELSE IF Marshal(makeCopy_p11(o, blacklistedFields)).err # NoErr
    THEN Outcome(o, oNil, h, "return", "none",
                 Marshal(makeCopy_p11(o, blacklistedFields)).err, <<>>, NoResp)
    ELSE
      LET url == makeURL_http(h, <<"sobjects", "/">> \o Type(o) \o <<"/">> \o ID(o))
          res == request(h, "PATCH", url, Marshal(makeCopy_p11(o, blacklistedFields)).data,
                         FALSE, resp)
      IN  CASE res.k = "panic" ->
                 Outcome(o, oNil, h, "panic", "none", NoErr, <<res.req>>, resp)
            [] res.k = "err" ->
                 Outcome(o, oNil, h, "return", "none", res.err, <<res.req>>, resp)
            [] OTHER ->
                 Outcome(o, oNil, h, "return", "none", NoErr, <<res.req>>, resp)

HTTPClient_UpsertSObject(o, oNil, h, idField, idValue, blacklistedFields, resp) ==
    IF TypePanics(o) THEN Outcome(o, oNil, h, "panic", "none", NoErr, <<>>, NoResp)
    ELSE IF Len(Type(o)) = 0
    THEN Outcome(o, oNil, h, "return", "none", ErrInvalidSObject("Type is empty"), <<>>, NoResp)
    ELSE IF Marshal(makeCopy_p11(o, blacklistedFields)).err # NoErr
    THEN Outcome(o, oNil, h, "return", "none",
                 Marshal(makeCopy_p11(o, blacklistedFields)).err, <<>>, NoResp)
    ELSE
      LET url == makeURL_http(h, <<"sobjects", "/">> \o Type(o) \o <<"/">> \o idField
                                   \o <<"/">> \o idValue)
          res == request(h, "PATCH", url, Marshal(makeCopy_p11(o, blacklistedFields)).data,
                         FALSE, resp)
      IN  CASE res.k = "panic" ->
                 Outcome(o, oNil, h, "panic", "none", NoErr, <<res.req>>, resp)
            [] res.k = "err" ->
                 Outcome(o, oNil, h, "return", "none", res.err, <<res.req>>, resp)
            [] OTHER ->
                 \* the body of the answer is never read
                 Outcome(o, oNil, h, "return", "none", NoErr, <<res.req>>, resp)

HTTPClient_DeleteSObject(o, oNil, h, resp) ==
    IF TypePanics(o) THEN Outcome(o, oNil, h, "panic", "none", NoErr, <<>>, NoResp)
    ELSE IF Len(Type(o)) = 0
    THEN Outcome(o, oNil, h, "return", "none", ErrInvalidSObject("Type is empty"), <<>>, NoResp)
    ELSE IF Len(ID(o)) = 0
    THEN Outcome(o, oNil, h, "return", "none", ErrInvalidSObject("Id is empty"), <<>>, NoResp)
    ELSE
      LET url == makeURL_http(h, <<"sobjects", "/">> \o Type(o) \o <<"/">> \o ID(o))
          res == request(h, "DELETE", url, BNone, FALSE, resp)
      IN  CASE res.k = "panic" ->
                 Outcome(o, oNil, h, "panic", "none", NoErr, <<res.req>>, resp)
            [] res.k = "err" ->
                 Outcome(o, oNil, h, "return", "none", res.err, <<res.req>>, resp)
            [] OTHER ->
                 Outcome(o, oNil, h, "return", "none", NoErr, <<res.req>>, resp)


(***************************************************************************)
(* The inputs the model draws calls from.                                  *)
(***************************************************************************)
\* Set(key, value) calls of the caller
SetInputs ==
    { <<"A", VNum(1)>>, <<"B", VStr(Str("x"))>>,
      <<"CreatedDate", VStr(Str("2020"))>>,
      <<"ExternalIDField", VStr(Str("B"))>>,
      <<"Id", VStr(Str("id1"))>>,
      <<"attributes", VMap([url |-> VNum(5)])>> }

\* the keys Set stores that are no data fields of the record
MetaKeys == {SobjectClientKey, SobjectAttributesKey, sobjectIDKey}

\* the identity arguments of Get(id...) and Delete(id...)
IdArgs == {NoArg, EmptyArgs, Arg(Str("id9"))}

\* per-call deny-lists of the HTTPClient edition
Blacklists == {<<>>, <<"B">>}

\* answers of the server
GetBody ==
    VMap([x \in {"attributes", "Id"} |->
            IF x = "attributes"
            THEN VMap([y \in {"type", "url"} |->
                         IF y = "type" THEN VStr(Str("Case")) ELSE VStr(Str("u"))])
            ELSE VStr(Str("id1"))])
CreateBody(id, success) ==
    VMap([x \in {"id", "success"} |-> IF x = "id" THEN VStr(id) ELSE VBool(success)])
ErrorBody(m, c) ==
    VArr(<< VMap([x \in {"message", "errorCode"} |->
                    IF x = "message" THEN VStr(m) ELSE VStr(c)]) >>)

\* a failure of the service or of the connection
Failures ==
    { Resp(400, BJson(ErrorBody(Str("something went wrong"), Str("SMTH_WRNG")))),
      ConnFail }

\* answers to the calls whose response body is not read (Update, Delete)
StatusResponses == {Resp(204, BEmpty)} \cup Failures

\* answers to the calls that read a record or its metadata (Get, Describe)
ReadResponses ==
    { Resp(200, BJson(GetBody)),
      Resp(200, BJson(Nil)),
      Resp(200, BText(Str("surprise!"))) } \cup Failures

\* answers to the calls that read a create result (Create, Upsert)
WriteResponses ==
    { Resp(201, BJson(CreateBody(Str("id2"), TRUE))),
      Resp(201, BJson(CreateBody(Str("id2"), FALSE))),
      Resp(200, BJson(CreateBody(EmptyStr, TRUE))),
      Resp(200, BJson(Nil)),
      Resp(204, BEmpty),
      Resp(200, BText(Str("surprise!"))) } \cup Failures

\* the inputs of a direct call of the classifier
StatusCodes == {400, 404, 417, 500, 503}
Messages == {Str("something went wrong"), Str("gone"), EmptyStr}
ErrorCodes == {Str("SMTH_WRNG"), Str("NOT_FOUND"), EmptyStr}
ErrorBodies ==
    {BJson(ErrorBody(m, c)) : m \in Messages, c \in ErrorCodes}
      \cup {BXml(m, c) : m \in Messages, c \in ErrorCodes}
      \cup { BXmlOther, BText(Str("surprise!")), BEmpty, BJson(VArr(<<>>)),
             BJson(Nil), BJson(VArr(<<VNum(1)>>)) }

(***************************************************************************)
(* The state machine.                                                      *)
(***************************************************************************)
Editions == {"sobject", "p12", "http"}

\* the editions of the classifier: src/errorHelpers.go returns a message,
\* src/errorHelpers_test.go:98 a SalesforceError
ClassifierEditions == {"errorHelpers", "errstruct"}

\* the record of the last call: what was called with what, the record and
\* the session before it, and the call's outcome
Call(op, args, pre, preNil, preClient, r) ==
    [op |-> op, args |-> args, pre |-> pre, preNil |-> preNil, preClient |-> preClient,
     out |-> r.out, ret |-> r.ret, err |-> r.err, reqs |-> r.reqs, resp |-> r.resp]

NoCall ==
    [op |-> "none", args |-> <<>>, pre |-> EmptyMap, preNil |-> FALSE,
     preClient |-> NewClient(DefaultURL, DefaultAPIVersion),
     out |-> "return", ret |-> "none", err |-> NoErr, reqs |-> <<>>, resp |-> NoResp]

\* the records a caller starts from: client.SObject("Case"), client.SObject(),
\* a bare &SObject{} and a typed literal that no session was bound to; in
\* the HTTPClient edition PtrSObject("Case") and PtrSObject("")
InitialObjects(ed) ==
    CASE ed \in {"sobject", "p12"} ->
           { setType(setClient(EmptyMap), Str("Case")),
             setClient(EmptyMap),
             EmptyMap,
             MapPut(EmptyMap, SobjectAttributesKey, SObjectAttributes(Str("Case"), EmptyStr)) }
      [] ed = "http" -> { setType(EmptyMap, Str("Case")), EmptyMap }
      [] OTHER -> { EmptyMap }

Init ==
    /\ edition \in Editions
    /\ obj \in InitialObjects(edition)
    /\ objNil = FALSE
    /\ client = IF edition = "http"
                THEN NewHTTPClient(DefaultURL \o <<"/">>, DefaultAPIVersion_http)
                ELSE NewClient(DefaultURL \o <<"/">>, DefaultAPIVersion)
    /\ last = [NoCall EXCEPT !.preClient = client]
    /\ pc = <<>>

\* the state after a call with outcome r
Finish(op, args, r) ==
    /\ obj' = r.obj
    /\ objNil' = r.objNil
    /\ client' = r.client
    /\ last' = Call(op, args, obj, objNil, client, r)
    /\ UNCHANGED <<edition, pc>>

\* obj.Set(key, value): an entry is assigned; assigning into a nil map faults
Set ==
    \E in \in SetInputs :
      /\ in[1] = sobjectExternalIDFieldNameKey => edition = "p12"
      /\ \/ in[1] \in DOMAIN obj
         \/ in[1] \in MetaKeys
         \/ Cardinality((DOMAIN obj) \ MetaKeys) < MaxFields
      /\ IF objNil
         THEN Finish("Set", <<in[1]>>,
                     Outcome(obj, objNil, client, "panic", "none", NoErr, <<>>, NoResp))
         ELSE Finish("Set", <<in[1]>>,
                     Outcome(MapPut(obj, in[1], in[2]), objNil, client, "return", "obj",
                             NoErr, <<>>, NoResp))

\* the record's methods, src/sobject.go and src/unnamed/part_012
CallDescribe ==
    \E resp \in ReadResponses :
      \/ /\ edition = "sobject"
         /\ Finish("Describe", <<>>, SObject_Describe(obj, objNil, client, resp))
      \/ /\ edition = "p12"
         /\ Finish("Describe", <<>>, SObject_Describe_p12(obj, objNil, client, resp))

CallGet ==
    \E id \in IdArgs \ {EmptyArgs}, resp \in ReadResponses :
      \/ /\ edition = "sobject"
         /\ Finish("Get", <<id>>, SObject_Get(obj, objNil, client, id, resp))
      \/ /\ edition = "p12"
         /\ Finish("Get", <<id>>, SObject_Get_p12(obj, objNil, client, id, resp))

CallCreate ==
    \E resp \in WriteResponses :
      \/ /\ edition = "sobject"
         /\ Finish("Create", <<>>, SObject_Create(obj, objNil, client, resp))
      \/ /\ edition = "p12"
         /\ Finish("Create", <<>>, SObject_Create_p12(obj, objNil, client, resp))

CallUpdate ==
    \E resp \in StatusResponses :
      \/ /\ edition = "sobject"
         /\ Finish("Update", <<>>, SObject_Update(obj, objNil, client, resp))
      \/ /\ edition = "p12"
         /\ Finish("Update", <<>>, SObject_Update_p12(obj, objNil, client, resp))

CallUpsert ==
    \E resp \in WriteResponses :
      /\ edition = "p12"
      /\ Finish("Upsert", <<>>, SObject_Upsert(obj, objNil, client, resp))

CallDelete ==
    \E id \in IdArgs, resp \in StatusResponses :
      \/ /\ edition = "sobject"
         /\ Finish("Delete", <<id>>, SObject_Delete(obj, objNil, client, id, resp))
      \/ /\ edition = "p12"
         /\ Finish("Delete", <<id>>, SObject_Delete_p12(obj, objNil, client, id, resp))

\* the session's record methods, src/force.go:1-361
CallDescribeSObject ==
    \E resp \in ReadResponses :
      /\ edition = "http"
      /\ Finish("Describe", <<>>, HTTPClient_DescribeSObject(obj, objNil, client, resp))

CallCreateSObject ==
    \E bl \in Blacklists, resp \in WriteResponses :
      /\ edition = "http"
      /\ Finish("Create", <<bl>>,
                HTTPClient_CreateSObject(obj, objNil, client, bl, FALSE, resp))

CallGetSObject ==
    \E resp \in ReadResponses :
      /\ edition = "http"
      /\ Finish("Get", <<NoArg>>, HTTPClient_GetSObject(obj, objNil, client, resp))

CallUpdateSObject ==
    \E bl \in Blacklists, resp \in StatusResponses :
      /\ edition = "http"
      /\ Finish("Update", <<bl>>, HTTPClient_UpdateSObject(obj, objNil, client, bl, resp))

CallUpsertSObject ==
    \E bl \in Blacklists, resp \in WriteResponses :
      /\ edition = "http"
      /\ Finish("Upsert", <<bl>>,
                HTTPClient_UpsertSObject(obj, objNil, client, Str("Ext__c"), Str("e1"),
                                         bl, resp))

CallDeleteSObject ==
    \E resp \in StatusResponses :
      /\ edition = "http"
      /\ Finish("Delete", <<NoArg>>, HTTPClient_DeleteSObject(obj, objNil, client, resp))

\* a direct call of the classifier: src/errorHelpers.go, and the edition
\* of src/errorHelpers_test.go:98 that returns a SalesforceError
CallParseSalesforceError ==
    \E statusCode \in StatusCodes, responseBody \in ErrorBodies :
      LET r == IF edition = "errstruct"
               THEN ParseSalesforceError_struct(statusCode, responseBody)
               ELSE ParseSalesforceError(statusCode, responseBody)
      IN  /\ edition \in ClassifierEditions
          /\ Finish("ParseSalesforceError", <<statusCode, responseBody>>,
                    Outcome(obj, objNil, client, r.k, "none",
                            IF r.k = "panic" THEN NoErr ELSE r.err, <<>>, NoResp))

Next ==
    \/ Set
    \/ CallDescribe
    \/ CallGet
    \/ CallCreate
    \/ CallUpdate
    \/ CallUpsert
    \/ CallDelete
    \/ CallDescribeSObject
    \/ CallCreateSObject
    \/ CallGetSObject
    \/ CallUpdateSObject
    \/ CallUpsertSObject
    \/ CallDeleteSObject

Spec == Init /\ [][Next]_vars

\* the classifier alone, called with every status and body of the bounds
InitClassifier ==
    /\ edition \in ClassifierEditions
    /\ obj = EmptyMap
    /\ objNil = FALSE
    /\ client = NewClient(DefaultURL, DefaultAPIVersion)
    /\ last = NoCall
    /\ pc = <<>>

NextClassifier == CallParseSalesforceError

SpecClassifier == InitClassifier /\ [][NextClassifier]_vars


(***************************************************************************)
(* Properties.  Each is stated over the record of the last call.           *)
(***************************************************************************)
\* the last call was a Create, Update or Upsert that sent its request
WriteSent == last.op \in {"Create", "Update", "Upsert"} /\ Len(last.reqs) = 1

\* the fields of the JSON object that request carried
WireCopy == last.reqs[1].body.v.m

\* the per-call deny-list of the last call (HTTPClient edition only)
PerCallList == IF edition = "http" THEN Range(last.args[1]) ELSE {}

\* the entry ExternalIDField of the record before the call, and the field
\* that it names
ExternalIdKeys ==
    {sobjectExternalIDFieldNameKey}
      \cup (IF MapGet(last.pre, sobjectExternalIDFieldNameKey).t = "string"
            THEN Range(last.pre[sobjectExternalIDFieldNameKey].s) ELSE {})

\* C1, as the code has it: the wire copy of Create/Update/Upsert never holds
\* the Session association key, attributes or Id, and when the record holds
\* no deny-listed field the copy is exactly the record's remaining fields
\* with their values; the edition with Upsert (part_012) leaves out the
\* entry ExternalIDField and the field it names as well.  (The HTTPClient
\* edition's record holds no Session association.)
C1_WireCopyOmitsEnvelope ==
    WriteSent =>
      /\ (DOMAIN WireCopy) \cap MetaKeys = {}
      /\ (DOMAIN last.pre) \cap (Range(blacklistedUpdateFields) \cup PerCallList) = {}
           => WireCopy = [x \in (DOMAIN last.pre)
                                  \ (MetaKeys \cup IF edition = "p12" THEN ExternalIdKeys ELSE {})
                            |-> last.pre[x]]

\* C1, as stated: the copy is exactly the record's fields other than the
\* Session association key, attributes and Id, in every edition
C1_AsStated ==
    WriteSent =>
      /\ (DOMAIN WireCopy) \cap MetaKeys = {}
      /\ (DOMAIN last.pre) \cap (Range(blacklistedUpdateFields) \cup PerCallList) = {}
           => WireCopy = [x \in (DOMAIN last.pre) \ MetaKeys |-> last.pre[x]]

\* a bound record {A: 1, B: "x"} with an identity was sent as {A: 1, B: "x"}
C1_Witness ==
    /\ WriteSent
    /\ {"A", "B", sobjectIDKey, SobjectAttributesKey, SobjectClientKey} \subseteq DOMAIN last.pre
    /\ WireCopy = [x \in {"A", "B"} |-> IF x = "A" THEN VNum(1) ELSE VStr(Str("x"))]

\* C2: the wire copy of the HTTPClient edition holds no field of the fixed
\* deny-list and no field of the per-call deny-list, whatever the per-call
\* list is
C2_DenyListUnion ==
    (edition = "http" /\ WriteSent) =>
      (DOMAIN WireCopy) \cap (Range(blacklistedUpdateFields) \cup Range(last.args[1])) = {}

\* a record holding CreatedDate (fixed list) and B (per-call list) was sent
\* with neither
C2_Witness ==
    /\ edition = "http"
    /\ WriteSent
    /\ last.args[1] = <<"B">>
    /\ {"B", "CreatedDate"} \subseteq DOMAIN last.pre
    /\ DOMAIN WireCopy = {}


\* the record's methods that reach the service
RecordOps == {"Describe", "Get", "Create", "Update", "Upsert", "Delete"}

\* no attributes.type is set: no attributes, attributes that are no map, or
\* attributes with no type or an empty one
NoTypeSet(o) ==
    LET a == MapGet(o, SobjectAttributesKey)
    IN  \/ a.t \notin {"SObjectAttributes", "map"}
        \/ a.t = "SObjectAttributes" /\ a.Type = EmptyStr
        \/ a.t = "map" /\ MapGet(a.m, "type").t = "nil"
        \/ a.t = "map" /\ MapGet(a.m, "type").t = "string" /\ a.m["type"].s = EmptyStr

\* C3, as stated: a record with no attributes.type set has the type "", and
\* Describe, Get and Create on it (src/sobject.go) return the local
\* precondition error, having sent no request
C3_AsStated ==
    /\ (edition = "sobject" /\ NoTypeSet(obj)) => (~TypePanics(obj) /\ Type(obj) = EmptyStr)
    /\ (edition = "sobject" /\ last.op \in {"Describe", "Get", "Create"} /\ NoTypeSet(last.pre))
         => /\ last.out = "return"
            /\ last.ret = "nil"
            /\ last.err = ERR_DATA_NOT_FOUND
            /\ Len(last.reqs) = 0

\* the record before the call was typed and bound to a session
TypedAndBound(o) == ~TypePanics(o) /\ Type(o) # EmptyStr /\ HasClient(o)

\* C4, as stated: Get, Update and Delete (src/sobject.go) on a typed, bound
\* record with an empty identity and no identity argument, and every
\* operation on a record with no bound session, return a local error and
\* send no request
C4_AsStated ==
    ( /\ edition = "sobject"
      /\ \/ /\ last.op \in {"Get", "Update", "Delete"}
            /\ TypedAndBound(last.pre)
            /\ ID(last.pre) = EmptyStr
            /\ last.op \in {"Get", "Delete"} => Len(last.args[1].v) = 0
         \/ /\ last.op \in RecordOps
            /\ ~HasClient(last.pre) )
      => /\ last.out = "return"
         /\ last.err.e = "sentinel"
         /\ Len(last.reqs) = 0

\* a 2xx answer whose body is an object with success = true and an id
CreateAccepted(resp) ==
    /\ resp.arrived
    /\ resp.status >= 200 /\ resp.status <= 299
    /\ resp.body.k = "json"
    /\ resp.body.v.t = "map"
    /\ MapGet(resp.body.v.m, "success").t = "bool"
    /\ resp.body.v.m["success"].b
    /\ MapGet(resp.body.v.m, "id").t = "string"
    /\ resp.body.v.m["id"].s # EmptyStr

\* a 2xx answer whose body is an object with success = false or no id
CreateRefused(resp) ==
    /\ resp.arrived
    /\ resp.status >= 200 /\ resp.status <= 299
    /\ resp.body.k = "json"
    /\ resp.body.v.t = "map"
    /\ ~CreateAccepted(resp)

\* the id in the body of the last call's answer
ServerId == last.resp.body.v.m["id"].s

\* C5: after a Create answered 2xx with success = true and a non-empty id,
\* the record's Id is that id, every other entry (type and session binding
\* among them) is as before, no error is returned, and the editions whose
\* Create returns a record return the receiver
C5_CreateAssignsIdentity ==
    (last.op = "Create" /\ Len(last.reqs) = 1 /\ CreateAccepted(last.resp))
      => /\ last.out = "return"
         /\ last.err = NoErr
         /\ obj = [x \in (DOMAIN last.pre) \cup {sobjectIDKey} |->
                     IF x = sobjectIDKey THEN VStr(ServerId) ELSE last.pre[x]]
         /\ objNil = last.preNil
         /\ edition \in {"sobject", "p12"} => last.ret = "obj"

\* a record with the identity id1 and a field A was created as id2
C5_Witness ==
    /\ last.op = "Create"
    /\ CreateAccepted(last.resp)
    /\ ID(last.pre) = Str("id1")
    /\ ID(obj) = Str("id2")
    /\ "A" \in DOMAIN obj

\* C6, as stated: a Create answered 2xx with success = false or an empty id
\* fails, with a non-nil error (in the edition whose Create returns only a
\* record: with nil), and the record's Id is as before
C6_AsStated ==
    (last.op = "Create" /\ Len(last.reqs) = 1 /\ CreateRefused(last.resp))
      => /\ last.out = "return"
         /\ IF edition = "p12" THEN last.ret = "nil" ELSE last.err # NoErr
         /\ ID(obj) = ID(last.pre)

\* C7, as stated: an Upsert answered 2xx with an id in the body sets the
\* record's Id to it, one answered with an empty body leaves the Id as it
\* was, and both succeed (the receiver, or a nil error, is returned)
C7_AsStated ==
    (last.op = "Upsert" /\ Len(last.reqs) = 1)
      => /\ CreateAccepted(last.resp)
              => /\ ID(obj) = ServerId
                 /\ IF edition = "p12" THEN last.ret = "obj" ELSE last.err = NoErr
         /\ (last.resp.arrived /\ last.resp.status = 204 /\ last.resp.body = BEmpty)
              => /\ ID(obj) = ID(last.pre)
                 /\ IF edition = "p12" THEN last.ret = "obj" ELSE last.err = NoErr

\* does the string s end with suffix
EndsWith(s, suffix) ==
    /\ Len(s) >= Len(suffix)
    /\ SubSeq(s, Len(s) - Len(suffix) + 1, Len(s)) = suffix

\* the identity argument of the last call, if one was given
HasIdArg == Len(last.args[1].v) > 0
IdArg == last.args[1].v[1]

\* C8: a Get that returns the receiver sent one GET to type/identity, the
\* identity being the argument when one is given and the record's own Id
\* otherwise, returned no error, and the record holds every field of the
\* response
C8_GetTargetsAndDecodes ==
    (edition \in {"sobject", "p12"} /\ last.op = "Get" /\ last.ret = "obj")
      => /\ Len(last.reqs) = 1
         /\ last.reqs[1].method = "GET"
         /\ EndsWith(last.reqs[1].url,
                     <<"/", "sobjects", "/">> \o Type(last.pre) \o <<"/">>
                       \o (IF HasIdArg THEN IdArg ELSE ID(last.pre)))
         /\ last.err = NoErr
         /\ last.resp.body.k = "json"
         /\ last.resp.body.v.t = "map"
              => \A k \in DOMAIN last.resp.body.v.m :
                   k \in DOMAIN obj /\ obj[k] = last.resp.body.v.m[k]

\* a record with a field A and no identity of its own was fetched as id9
\* and holds the fields of the response beside A
C8_Witness ==
    /\ last.op = "Get"
    /\ last.ret = "obj"
    /\ HasIdArg
    /\ IdArg = Str("id9")
    /\ "Id" \notin DOMAIN last.pre
    /\ "A" \in DOMAIN last.pre
    /\ last.resp.body = BJson(GetBody)
    /\ ID(obj) = Str("id1")
    /\ "A" \in DOMAIN obj

\* C9, as stated: a Delete given an identity argument on a typed, bound
\* record sends its DELETE to type/<argument>, whatever the record's own Id
C9_AsStated ==
    ( /\ edition \in {"sobject", "p12"}
      /\ last.op = "Delete"
      /\ TypedAndBound(last.pre)
      /\ HasIdArg
      /\ IdArg # EmptyStr )
      => /\ Len(last.reqs) = 1
         /\ last.reqs[1].method = "DELETE"
         /\ EndsWith(last.reqs[1].url,
                     <<"/", "sobjects", "/">> \o Type(last.pre) \o <<"/">> \o IdArg)

\* the body given to the classifier is a JSON array whose first element
\* holds a message and an error code, or an XML fault envelope
WellFormedError(body) ==
    \/ /\ body.k = "json"
       /\ body.v.t = "array"
       /\ Len(body.v.a) > 0
       /\ body.v.a[1].t = "map"
       /\ MapGet(body.v.a[1].m, "message").t = "string"
       /\ MapGet(body.v.a[1].m, "errorCode").t = "string"
    \/ body.k = "xml" /\ body.fault

\* the message and the code such a body holds
MessageOf(body) == IF body.k = "xml" THEN body.faultstring ELSE body.v.a[1].m["message"].s
CodeOf(body) == IF body.k = "xml" THEN body.faultcode ELSE body.v.a[1].m["errorCode"].s

\* C10, as stated: for a well-formed body the classifier returns an error
\* whose message contains the body's message and code and whose status is
\* the status code it was given
C10_AsStated ==
    (last.op = "ParseSalesforceError" /\ WellFormedError(last.args[2]))
      => /\ last.out = "return"
         /\ last.err.e = "SalesforceError"
         /\ last.err.HttpCode = last.args[1]
         /\ Contains(last.err.Message, MessageOf(last.args[2]))
         /\ Contains(last.err.Message, CodeOf(last.args[2]))


\* the body given to the classifier is no JSON at all and no XML fault
\* envelope: plain text, nothing, or an XML document of another shape
OpaqueBody(body) == body.k \in {"text", "empty"} \/ (body.k = "xml" /\ ~body.fault)

\* C11, as stated: for a body that is neither a JSON error array nor an XML
\* fault envelope the classifier returns an error whose message is the
\* body's text, whose status is the status code it was given, and which
\* holds no error code
C11_AsStated ==
    (last.op = "ParseSalesforceError" /\ OpaqueBody(last.args[2]))
      => /\ last.out = "return"
         /\ last.err.e = "SalesforceError"
         /\ last.err.Message = BodyText(last.args[2])
         /\ last.err.HttpCode = last.args[1]
         /\ last.err.ErrorCode = EmptyStr


(***************************************************************************)
(* SObjectField: a field of the record read as another record.  The text   *)
(* of src/sobject.go:238-284 and of src/unnamed/part_012:286-332 is the    *)
(* same but for the spelling of the attributes key.                        *)
(***************************************************************************)
\* a variable of the pointer type of Client that holds nil
VNilClient == [t |-> "nil *Client"]

\* client(): the Client pointer stored in the record, nil for any other entry
clientOf(o) == IF HasClient(o) THEN VClient ELSE VNilClient

\* setClient(client) with the pointer given, nil included
setClientTo(o, c) == MapPut(o, SobjectClientKey, c)

\* client.SObject(typeName): the receiver is stored, never dereferenced
Client_SObject(c, typeName) == setType(setClientTo(EmptyMap, c), typeName)

\* the first separator of the string, counted from 0; -1 without one
LastIndex_first(s, sep) ==
    IF \E i \in 1..Len(s) : s[i] = sep
    THEN (CHOOSE i \in 1..Len(s) : s[i] = sep /\ \A j \in 1..(i - 1) : s[j] # sep) - 1
    ELSE -1

\* strings.LastIndex(s, sep), counted from 0; -1 without a separator
LastIndex(s, sep) ==
    IF \E i \in 1..Len(s) : s[i] = sep
    THEN (CHOOSE i \in 1..Len(s) : s[i] = sep /\ \A j \in (i + 1)..Len(s) : s[j] # sep) - 1
    ELSE -1

\* the results of SObjectField: nil, or a pointer to a new record
NilSObject == [k |-> "nil"]
PtrSObject(o) == [k |-> "ptr", o |-> o]

\* a stub made by retyping a copy of the parent
SObjectField_retypeParent(o, typeName, key) ==
    IF StringField(o, key) # EmptyStr
    THEN PtrSObject(setID(setType(o, typeName), StringField(o, key)))
    ELSE NilSObject

SObjectField(o, typeName, key) ==
    LET oid == StringField(o, key)
        linkedObjRaw == InterfaceField(o, key)
    IN  IF oid # EmptyStr
        THEN PtrSObject(setID(setType(setClientTo(EmptyMap, clientOf(o)), typeName), oid))
        ELSE IF linkedObjRaw.t # "map" THEN NilSObject
        ELSE
          LET linkedObjMapper == linkedObjRaw.m
              attrs == MapGet(linkedObjMapper, SobjectAttributesKey)
          IN  IF attrs.t # "map" THEN NilSObject
              ELSE
                LET ty == MapGet(attrs.m, "type")
                    u == MapGet(attrs.m, "url")
                    nestedType == IF ty.t = "string" THEN ty.s ELSE EmptyStr
                    url == IF u.t = "string" THEN u.s ELSE EmptyStr
                    rIndex == LastIndex(url, "/")
                    object == setID(Client_SObject(clientOf(o), nestedType),
                                    SubSeq(url, rIndex + 2, Len(url)))
                IN  IF nestedType = EmptyStr \/ url = EmptyStr THEN NilSObject
                    ELSE IF rIndex = -1 \/ rIndex + 1 = Len(url) THEN NilSObject
                    ELSE PtrSObject([x \in (DOMAIN object) \cup (DOMAIN linkedObjMapper) |->
                                       IF x \in DOMAIN linkedObjMapper
                                       THEN linkedObjMapper[x] ELSE object[x]])

\* the url of an expanded Case, and the attributes the server sends with it
CaseUrl == <<"/", "services", "/", "Case", "/", "500X">>
LinkedAttributes(type, url) ==
    VMap([x \in {"type", "url"} |-> IF x = "type" THEN type ELSE url])
Linked(attributes) ==
    VMap([x \in {SobjectAttributesKey, "Subject"} |->
            IF x = SobjectAttributesKey THEN attributes ELSE VStr(Str("s"))])

\* what a linking field may hold: scalars, and expanded objects whole and
\* malformed
LinkedValues ==
    { VStr(EmptyStr), VStr(Str("500X")), VNum(7), Nil,
      Linked(LinkedAttributes(VStr(Str("Case")), VStr(CaseUrl))),
      VMap(MapPut(Linked(LinkedAttributes(VStr(Str("Case")), VStr(CaseUrl))).m,
                  sobjectIDKey, VStr(Str("500Y")))),
      VMap(MapPut(Linked(LinkedAttributes(VStr(Str("Case")), VStr(CaseUrl))).m,
                  SobjectClientKey, VStr(Str("x")))),
      VMap([x \in {"Subject"} |-> VStr(Str("s"))]),
      Linked(SObjectAttributes(Str("Case"), CaseUrl)),
      Linked(VMap([x \in {"url"} |-> VStr(CaseUrl)])),
      Linked(LinkedAttributes(VStr(EmptyStr), VStr(CaseUrl))),
      Linked(LinkedAttributes(VNum(1), VStr(CaseUrl))),
      Linked(VMap([x \in {"type"} |-> VStr(Str("Case"))])),
      Linked(LinkedAttributes(VStr(Str("Case")), VStr(Str("500X")))),
      Linked(LinkedAttributes(VStr(Str("Case")), VStr(<<"/", "Case", "/">>))) }

LinkKeys == {"Parent", "OwnerId"}
TypeNames == {Str("Case"), EmptyStr}

\* the result of the last SObjectField call, kept beside the call's record
WithChild(call, child) == call @@ [child |-> child]

\* obj.Set("Parent", value) with a linking value
SetLinked ==
    \E value \in LinkedValues :
      /\ obj' = MapPut(obj, "Parent", value)
      /\ last' = WithChild(Call("Set", <<"Parent">>, obj, objNil, client,
                                Outcome(obj', objNil, client, "return", "obj", NoErr,
                                        <<>>, NoResp)), NilSObject)
      /\ UNCHANGED <<edition, objNil, client, pc>>

\* obj.SObjectField(typeName, key): the record itself is left as it was
CallSObjectField ==
    \E typeName \in TypeNames, key \in LinkKeys :
      /\ last' = WithChild(Call("SObjectField", <<typeName, key>>, obj, objNil, client,
                                Outcome(obj, objNil, client, "return",
                                        IF SObjectField(obj, typeName, key).k = "nil"
                                        THEN "nil" ELSE "new", NoErr, <<>>, NoResp)),
                           SObjectField(obj, typeName, key))
      /\ UNCHANGED <<edition, obj, objNil, client, pc>>

\* the parents: client.SObject("CaseComment"), and the literal of
\* TestSObject_SObjectField that no session was bound to
InitField ==
    /\ edition \in {"sobject", "p12"}
    /\ obj \in { Client_SObject(VClient, Str("CaseComment")),
                 MapPut(EmptyMap, SobjectAttributesKey,
                        SObjectAttributes(Str("CaseComment"), EmptyStr)) }
    /\ objNil = FALSE
    /\ client = NewClient(DefaultURL \o <<"/">>, DefaultAPIVersion)
    /\ last = WithChild([NoCall EXCEPT !.preClient = client], NilSObject)
    /\ pc = <<>>

SpecField == InitField /\ [][SetLinked \/ CallSObjectField]_vars


\* the last call was SObjectField(typeName, key) on a record whose field
\* key held ...
FieldCall == last.op = "SObjectField"
FieldValue == InterfaceField(last.pre, last.args[2])

\* C12: SObjectField(typeName, key) on a record whose field key holds a
\* non-empty string s returns a new record whose type is typeName, whose
\* identity is s and which holds no data field, whatever the type and the
\* fields of the parent
C12_ScalarFieldGivesStub ==
    (FieldCall /\ FieldValue.t = "string" /\ FieldValue.s # EmptyStr)
      => /\ last.out = "return"
         /\ last.child.k = "ptr"
         /\ Type(last.child.o) = last.args[1]
         /\ ID(last.child.o) = FieldValue.s
         /\ (DOMAIN last.child.o) \ MetaKeys = {}

\* C12 witness: a parent of type CaseComment with the data field Parent =
\* "500X" was asked for SObjectField("Case", "Parent") and gave a record
C12_Witness ==
    /\ FieldCall
    /\ last.args = <<Str("Case"), "Parent">>
    /\ FieldValue = VStr(Str("500X"))
    /\ Type(last.pre) = Str("CaseComment")
    /\ last.child.k = "ptr"


\* the type and the url in the attributes of a nested object, "" when it
\* has none; the attributes are a decoded object or the library's struct
NestedAttributes(v) == IF v.t = "map" THEN MapGet(v.m, SobjectAttributesKey) ELSE Nil
NestedAttr(v, name) ==
    LET a == NestedAttributes(v)
    IN  CASE a.t = "map" /\ MapGet(a.m, name).t = "string" -> MapGet(a.m, name).s
          [] a.t = "SObjectAttributes" -> IF name = "type" THEN a.Type ELSE a.URL
          [] OTHER -> EmptyStr

\* the part of a path after its last "/": the whole path when it has none
TrailingSegment(url) ==
    LET start == CHOOSE i \in 1..(Len(url) + 1) :
                     /\ \A j \in i..Len(url) : url[j] # "/"
                     /\ i = 1 \/ url[i - 1] = "/"
    IN  SubSeq(url, start, Len(url))

\* C13, as stated: SObjectField on a field that holds a nested object with
\* a non-empty attributes.type and attributes.url returns a record whose
\* identity is the trailing path segment of the url, whose type is the
\* nested type, which holds every field of the nested object and which is
\* bound to the session of the parent
C13_AsStated ==
    (FieldCall /\ NestedAttr(FieldValue, "type") # EmptyStr
               /\ NestedAttr(FieldValue, "url") # EmptyStr)
      => /\ last.child.k = "ptr"
         /\ ID(last.child.o) = TrailingSegment(NestedAttr(FieldValue, "url"))
         /\ Type(last.child.o) = NestedAttr(FieldValue, "type")
         /\ \A k \in DOMAIN FieldValue.m : last.child.o[k] = FieldValue.m[k]
         /\ clientOf(last.child.o) = clientOf(last.pre)

\* the nested object is what a decoded response holds: its attributes are
\* an object with strings for type and url, and the url continues after
\* its last "/"
ExpandedLink(v) ==
    /\ NestedAttributes(v).t = "map"
    /\ NestedAttr(v, "type") # EmptyStr
    /\ NestedAttr(v, "url") # EmptyStr
    /\ TrailingSegment(NestedAttr(v, "url")) # EmptyStr
    /\ TrailingSegment(NestedAttr(v, "url")) # NestedAttr(v, "url")

\* C13, amended: for such a nested object SObjectField returns a record of
\* the nested type that holds every field of the nested object; its
\* identity is the trailing path segment of the url unless the nested
\* object has an Id entry of its own, and it is bound to the session of the
\* parent unless the nested object has an entry under the session key
C13_ExpandedLinkGivesRecord ==
    (FieldCall /\ ExpandedLink(FieldValue))
      => /\ last.child.k = "ptr"
         /\ Type(last.child.o) = NestedAttr(FieldValue, "type")
         /\ \A k \in DOMAIN FieldValue.m : last.child.o[k] = FieldValue.m[k]
         /\ DOMAIN last.child.o = (DOMAIN FieldValue.m) \cup MetaKeys
         /\ sobjectIDKey \notin DOMAIN FieldValue.m
              => ID(last.child.o) = TrailingSegment(NestedAttr(FieldValue, "url"))
         /\ SobjectClientKey \notin DOMAIN FieldValue.m
              => clientOf(last.child.o) = clientOf(last.pre)

\* C13 witness: a parent bound to the session held an expanded Case under
\* Parent, and SObjectField gave a bound record with the identity 500X
C13_Witness ==
    /\ FieldCall
    /\ last.args[2] = "Parent"
    /\ ExpandedLink(FieldValue)
    /\ HasClient(last.pre)
    /\ last.child.k = "ptr"
    /\ HasClient(last.child.o)
    /\ ID(last.child.o) = Str("500X")
    /\ MapGet(last.child.o, "Subject") = VStr(Str("s"))


\* the linking field holds nothing SObjectField can follow: it is missing
\* or nil, the empty string, neither a string nor an object, or an object
\* whose attributes are missing, lack a non-empty type or url, or have a
\* url with nothing after its last "/"
NoLink(v) ==
    \/ v.t = "nil"
    \/ v = VStr(EmptyStr)
    \/ v.t \notin {"string", "map"}
    \/ /\ v.t = "map"
       /\ \/ NestedAttributes(v).t = "nil"
          \/ NestedAttr(v, "type") = EmptyStr
          \/ NestedAttr(v, "url") = EmptyStr
          \/ TrailingSegment(NestedAttr(v, "url")) = EmptyStr

\* C14: SObjectField returns nil, and does not fault, whenever the field is
\* missing, is the empty string, is neither a string nor an object, or is
\* a nested object whose attributes are missing, lack a non-empty type or
\* url, or have a url with no non-empty trailing path segment
C14_NoLinkGivesNil ==
    (FieldCall /\ NoLink(FieldValue))
      => /\ last.out = "return"
         /\ last.child = NilSObject
         /\ last.err = NoErr

\* C14 witness: SObjectField("Case", "Parent") gave nil for a nested object
\* whose url ends in "/", and the parent is as it was
C14_Witness ==
    /\ FieldCall
    /\ FieldValue.t = "map"
    /\ NestedAttr(FieldValue, "url") # EmptyStr
    /\ TrailingSegment(NestedAttr(FieldValue, "url")) = EmptyStr
    /\ last.child = NilSObject
    /\ obj = last.pre


(***************************************************************************)
(* The session's own operations: Query in the one-argument edition of      *)
(* Client (src/force.go:985) and the two-argument edition of HTTPClient     *)
(* (src/force.go:68), ApexREST, ExecuteAnonymous, DescribeGlobal,           *)
(* DownloadFile, the login and the tooling switch.  A string is a sequence  *)
(* of tokens; the characters that escaping treats specially are tokens of   *)
(* their own, and an escape sequence such as %20 is one token.              *)
(***************************************************************************)
\* the longest SOQL string of the inputs, in tokens
MaxQueryLen == 2

\* url.QueryEscape: the escaping of a query component
QueryEscape(s) ==
    [i \in 1..Len(s) |->
        CASE s[i] = " " -> "+"
          [] s[i] = "&" -> "%26"
          [] s[i] = "+" -> "%2B"
          [] s[i] = "=" -> "%3D"
          [] s[i] = "%" -> "%25"
          [] s[i] = "'" -> "%27"
          [] s[i] = "/" -> "%2F"
          [] s[i] = "?" -> "%3F"
          [] OTHER -> s[i]]

\* url.PathEscape: the escaping of a path segment, which leaves & + = as
\* they are
PathEscape(s) ==
    [i \in 1..Len(s) |->
        CASE s[i] = " " -> "%20"
          [] s[i] = "%" -> "%25"
          [] s[i] = "'" -> "%27"
          [] s[i] = "/" -> "%2F"
          [] s[i] = "?" -> "%3F"
          [] OTHER -> s[i]]

\* url.QueryUnescape, as the server applies it to a key or a value
QueryUnescape(s) ==
    [i \in 1..Len(s) |->
        CASE s[i] \in {"+", "%20"} -> " "
          [] s[i] = "%26" -> "&"
          [] s[i] = "%2B" -> "+"
          [] s[i] = "%3D" -> "="
          [] s[i] = "%25" -> "%"
          [] s[i] = "%27" -> "'"
          [] s[i] = "%2F" -> "/"
          [] s[i] = "%3F" -> "?"
          [] OTHER -> s[i]]

\* the position of the first sep in s, Len(s) + 1 without one
IndexOf(s, sep) ==
    IF \E i \in 1..Len(s) : s[i] = sep
    THEN CHOOSE i \in 1..Len(s) : s[i] = sep /\ \A j \in 1..(i - 1) : s[j] # sep
    ELSE Len(s) + 1

\* url.ParseQuery: the key=value settings of a raw query, split at "&"
\* and then at the first "=", both sides unescaped
RECURSIVE ParseQuery(_)
ParseQuery(raw) ==
    IF raw = <<>> THEN <<>>
    ELSE LET amp == IndexOf(raw, "&")
             setting == SubSeq(raw, 1, amp - 1)
             eq == IndexOf(setting, "=")
             rest == ParseQuery(SubSeq(raw, amp + 1, Len(raw)))
         IN  IF setting = <<>> THEN rest
             ELSE << [key |-> QueryUnescape(SubSeq(setting, 1, eq - 1)),
                      value |-> QueryUnescape(SubSeq(setting, eq + 1, Len(setting)))] >>
                  \o rest

\* r.URL.Query() of the receiving server: the settings after the "?"
URLQuery(url) == ParseQuery(SubSeq(url, IndexOf(url, "?") + 1, Len(url)))
\* Values.Has(key) and Values.Get(key): the first value of the key, or ""
QueryHas(url, key) == \E i \in 1..Len(URLQuery(url)) : URLQuery(url)[i].key = key
QueryGet(url, key) ==
    IF QueryHas(url, key)
    THEN URLQuery(url)[CHOOSE i \in 1..Len(URLQuery(url)) :
                           /\ URLQuery(url)[i].key = key
                           /\ \A j \in 1..(i - 1) : URLQuery(url)[j].key # key].value
    ELSE EmptyStr

\* a prefix test that never finds the prefix
HasPrefix_never(s, prefix) == FALSE

\* strings.HasPrefix
HasPrefix(s, prefix) == Len(s) >= Len(prefix) /\ SubSeq(s, 1, Len(prefix)) = prefix

\* json.Unmarshal(data, &result), result QueryResult
UnmarshalQueryResult(body) ==
    IF body.k # "json" THEN SyntaxError
    ELSE IF body.v.t = "nil" THEN NoErr
    ELSE IF body.v.t # "map" THEN UnmarshalTypeError
    ELSE IF MapGet(body.v.m, "records").t \notin {"nil", "array"} THEN UnmarshalTypeError
    ELSE NoErr

\* Client.Query(q): ret "result" stands for the decoded page, whose records
\* are bound to the client
Client_Query(o, oNil, c, q, resp) ==
    IF c.sessionID = EmptyStr
    THEN Outcome(o, oNil, c, "return", "nil", ErrAuthentication, <<>>, NoResp)
    ELSE
      LET u == IF HasPrefix(q, <<"/", "services", "/", "data">>)
               THEN c.instanceURL \o q
               ELSE c.instanceURL \o <<"/", "services", "/", "data", "/", "v">>
                      \o c.apiVersion
                      \o (IF c.useToolingAPI THEN <<"/", "tooling">> ELSE <<>>)
                      \o <<"/", "query", "?", "q", "=">> \o QueryEscape(q)
          h == httpRequest(c, "GET", u, BNone, resp)
      IN  CASE h.k = "panic" -> Outcome(o, oNil, c, "panic", "none", NoErr, <<h.req>>, resp)
            [] h.k = "err" -> Outcome(o, oNil, c, "return", "nil", h.err, <<h.req>>, resp)
            [] OTHER ->
                 IF UnmarshalQueryResult(h.data) # NoErr
                 THEN Outcome(o, oNil, c, "return", "nil", UnmarshalQueryResult(h.data),
                              <<h.req>>, resp)
                 ELSE Outcome(o, oNil, c, "return", "result", NoErr, <<h.req>>, resp)

\* HTTPClient.Query(query, nextRecordsURL)
HTTPClient_Query(o, oNil, h, query, nextRecordsURL, resp) ==
    LET path == IF Len(nextRecordsURL) > 0 THEN nextRecordsURL
                ELSE <<"/", "services", "/", "data", "/">> \o h.apiVersion
                       \o <<"/", "query", "?", "q", "=">> \o PathEscape(query)
        res == request(h, "GET", h.baseURL \o path, BNone, FALSE, resp)
    IN  CASE res.k = "panic" -> Outcome(o, oNil, h, "panic", "none", NoErr, <<res.req>>, resp)
          [] res.k = "err" -> Outcome(o, oNil, h, "return", "nil", res.err, <<res.req>>, resp)
          [] OTHER ->
               IF UnmarshalQueryResult(res.data) # NoErr
               THEN Outcome(o, oNil, h, "return", "nil", UnmarshalQueryResult(res.data),
                            <<res.req>>, resp)
               ELSE Outcome(o, oNil, h, "return", "result", NoErr, <<res.req>>, resp)


\* the instance the login names, and the login response's envelope
InstanceURL == <<"https:", "/", "/", "na1.salesforce.com">>
BLogin(sessionId, serverUrl) ==
    [k |-> "xml", fault |-> FALSE, faultstring |-> EmptyStr, faultcode |-> EmptyStr,
     sessionId |-> sessionId, serverUrl |-> serverUrl]

\* parseHost: scheme "://" host of the url; "://" for the empty url
parseHost(input) ==
    IF Len(input) >= 4 THEN SubSeq(input, 1, 4) ELSE <<":", "/", "/">>

\* the editions whose session is a Client
ClientEditions == {"sobject", "p12"}

\* client.SetSidLoc(sid, loc), the location drawn from locs
SetSidLoc(locs) ==
    \E sid \in {EmptyStr, Str("sid1")}, loc \in locs :
      /\ edition \in ClientEditions
      /\ Finish("SetSidLoc", <<sid, loc>>,
                Outcome(obj, objNil,
                        [client EXCEPT !.sessionID = sid, !.instanceURL = loc],
                        "return", "none", NoErr, <<>>, NoResp))

\* client.LoginPassword(username, password, token): one SOAP request; the
\* session is assigned only when the response is 200 and decodes
LoginPassword ==
    \E resp \in { Resp(200, BLogin(Str("sid1"), InstanceURL \o <<"/", "services">>)),
                  Resp(200, BLogin(EmptyStr, EmptyStr)),
                  Resp(200, BText(Str("surprise!"))),
                  Resp(500, BXml(Str("INVALID_LOGIN"), Str("sf:INVALID_LOGIN"))),
                  ConnFail } :
      LET req == [Request("POST",
                          client.baseURL \o <<"/", "services", "/", "Soap", "/", "u", "/">>
                             \o client.apiVersion,
                          BText(Str("<login envelope>")), EmptyStr)
                    EXCEPT !.contentType = "text/xml"]
          theError == ParseSalesforceError(resp.status, resp.body)
          r == IF ~resp.arrived
               THEN Outcome(obj, objNil, client, "return", "none", TransportError,
                            <<req>>, resp)
               ELSE IF resp.status # 200
               THEN IF theError.k = "panic"
                    THEN Outcome(obj, objNil, client, "panic", "none", NoErr, <<req>>, resp)
                    ELSE Outcome(obj, objNil, client, "return", "none", theError.err,
                                 <<req>>, resp)
               ELSE IF resp.body.k # "xml"
               THEN Outcome(obj, objNil, client, "return", "none",
                            [e |-> "xml.SyntaxError"], <<req>>, resp)
               ELSE Outcome(obj, objNil,
                            [client EXCEPT
                               !.sessionID = IF "sessionId" \in DOMAIN resp.body
                                             THEN resp.body.sessionId ELSE EmptyStr,
                               !.instanceURL = parseHost(IF "serverUrl" \in DOMAIN resp.body
                                                         THEN resp.body.serverUrl
                                                         ELSE EmptyStr)],
                            "return", "none", NoErr, <<req>>, resp)
      IN  /\ edition \in ClientEditions
          /\ Finish("LoginPassword", <<>>, r)

\* client.Tooling() and client.UnTooling()
Tooling ==
    /\ edition \in ClientEditions
    /\ Finish("Tooling", <<>>,
              Outcome(obj, objNil, [client EXCEPT !.useToolingAPI = TRUE],
                      "return", "none", NoErr, <<>>, NoResp))

UnTooling ==
    /\ edition \in ClientEditions
    /\ Finish("UnTooling", <<>>,
              Outcome(obj, objNil, [client EXCEPT !.useToolingAPI = FALSE],
                      "return", "none", NoErr, <<>>, NoResp))

\* the SOQL strings: every string of at most MaxQueryLen tokens
SoqlTokens == {"SELECT", " ", "&", "+", "=", "%", "'"}
Queries == UNION {[1..n -> SoqlTokens] : n \in 0..MaxQueryLen}

\* continuation paths: the one the service returns with a page, and the
\* one of TestHTTPClient_Query_nextRecordsURL
ServicePage ==
    <<"/", "services", "/", "data", "/", "v", "54.0", "/", "query", "/", "01g-2000">>
NextRecordsURLs == {ServicePage, <<"/", "foo", "/", "bar">>}

\* answers to a query
QueryBody == VMap([x \in {"records", "nextRecordsUrl"} |->
                     IF x = "records" THEN VArr(<<GetBody>>) ELSE VStr(ServicePage)])
QueryResponses ==
    { Resp(200, BJson(QueryBody)), Resp(200, BText(Str("surprise!"))),
      Resp(400, BJson(VArr(<<>>))) } \cup Failures

\* Query called with one of the strings qs and answered with one of resps:
\* client.Query(q), and h.Query(q, "") or h.Query("SELECT", nextRecordsURL)
QueryWith(qs, resps) ==
    \E q \in qs, resp \in resps :
      \/ /\ edition \in ClientEditions
         /\ Finish("Query", <<q, EmptyStr>>, Client_Query(obj, objNil, client, q, resp))
      \/ /\ edition = "http"
         /\ IF q \in NextRecordsURLs
            THEN Finish("Query", <<Str("SELECT"), q>>,
                        HTTPClient_Query(obj, objNil, client, Str("SELECT"), q, resp))
            ELSE Finish("Query", <<q, EmptyStr>>,
                        HTTPClient_Query(obj, objNil, client, q, EmptyStr, resp))


InitQuery ==
    /\ edition \in {"sobject", "http"}
    /\ obj = EmptyMap
    /\ objNil = FALSE
    /\ client = IF edition = "http"
                THEN NewHTTPClient(InstanceURL \o <<"/">>, DefaultAPIVersion_http)
                ELSE NewClient(DefaultURL \o <<"/">>, DefaultAPIVersion)
    /\ last = [NoCall EXCEPT !.preClient = client]
    /\ pc = <<>>

\* the session logs in, switches its mode and queries: every SOQL string
\* of the bound and the continuation paths, answered with a page or refused
SpecQuery ==
    InitQuery /\
    [][\/ SetSidLoc({InstanceURL})
       \/ Tooling
       \/ UnTooling
       \/ QueryWith(Queries \cup NextRecordsURLs,
                    {Resp(200, BJson(QueryBody)),
                     Resp(400, BJson(ErrorBody(Str("something went wrong"),
                                               Str("SMTH_WRNG"))))})]_vars


\* the last call was a Query that the session let through: the HTTPClient
\* holds no token of its own, the Client must hold one
QueryCall == last.op = "Query"
QueryAdmitted == QueryCall /\ (edition = "http" \/ last.preClient.sessionID # EmptyStr)

\* the continuation path the last Query was given, "" when it was given an
\* SOQL string: the second argument of the two-argument Query, and for the
\* one-argument Query a string that begins like the service's paths
Continuation ==
    IF edition = "http" THEN last.args[2]
    ELSE IF /\ Len(last.args[1]) >= 4
            /\ SubSeq(last.args[1], 1, 4) = <<"/", "services", "/", "data">>
         THEN last.args[1]
    ELSE EmptyStr

\* the endpoint requests go to: baseURL of the HTTPClient, instanceURL of
\* the Client
Endpoint == IF edition = "http" THEN last.preClient.baseURL ELSE last.preClient.instanceURL

C17_AsStated ==
    (QueryAdmitted /\ Continuation = EmptyStr)
      => /\ Len(last.reqs) = 1
         /\ last.reqs[1].method = "GET"
         /\ QueryGet(last.reqs[1].url, <<"q">>) = last.args[1]


(***************************************************************************)
(* The session with all its operations: the login, the tooling switch,     *)
(* the session's own calls and the record's calls of the three editions.   *)
(***************************************************************************)
\* client.ApexREST("POST", "myapi", body): the response's bytes are returned
CallApexREST ==
    \E resp \in {Resp(200, BText(Str("surprise!")))} \cup Failures :
      LET h == httpRequest(client, "POST", client.instanceURL \o <<"/", "myapi">>,
                           BText(Str("payload")), resp)
          r == IF client.sessionID = EmptyStr
               THEN Outcome(obj, objNil, client, "return", "nil", ErrAuthentication,
                            <<>>, NoResp)
               ELSE CASE h.k = "panic" ->
                           Outcome(obj, objNil, client, "panic", "none", NoErr, <<h.req>>, resp)
                      [] h.k = "err" ->
                           Outcome(obj, objNil, client, "return", "nil", h.err, <<h.req>>, resp)
                      [] OTHER ->
                           Outcome(obj, objNil, client, "return", "data", NoErr, <<h.req>>, resp)
      IN  /\ edition \in ClientEditions
          /\ Finish("ApexREST", <<Str("POST"), Str("myapi")>>, r)

\* client.ExecuteAnonymous(apexBody): always the tooling path
CallExecuteAnonymous ==
    \E resp \in {Resp(200, BJson(VMap(EmptyMap))), Resp(200, BText(Str("surprise!")))}
                  \cup Failures :
      LET endpoint == client.instanceURL \o <<"/", "services", "/", "data", "/", "v">>
                        \o client.apiVersion
                        \o <<"/", "tooling", "/", "executeAnonymous", "/", "?",
                             "anonymousBody", "=">>
                        \o QueryEscape(<<"System.debug", " ", "'", "x", "'">>)
          h == httpRequest(client, "GET", endpoint, BNone, resp)
          r == IF client.sessionID = EmptyStr
               THEN Outcome(obj, objNil, client, "return", "nil", ErrAuthentication,
                            <<>>, NoResp)
               ELSE CASE h.k = "panic" ->
                           Outcome(obj, objNil, client, "panic", "none", NoErr, <<h.req>>, resp)
                      [] h.k = "err" ->
                           Outcome(obj, objNil, client, "return", "nil", h.err, <<h.req>>, resp)
                      [] OTHER ->
                           IF UnmarshalMeta(h.data) # NoErr
                           THEN Outcome(obj, objNil, client, "return", "nil",
                                        UnmarshalMeta(h.data), <<h.req>>, resp)
                           ELSE Outcome(obj, objNil, client, "return", "result", NoErr,
                                        <<h.req>>, resp)
      IN  /\ edition \in ClientEditions
          /\ Finish("ExecuteAnonymous", <<>>, r)

\* strings.TrimRight(s, "/")
TrimRightSlash(s) ==
    IF \E i \in 1..Len(s) : s[i] # "/"
    THEN SubSeq(s, 1, CHOOSE i \in 1..Len(s) :
                          s[i] # "/" /\ \A j \in (i + 1)..Len(s) : s[j] = "/")
    ELSE <<>>

\* client.DescribeGlobal(): the session is not asked whether it is logged
\* in, and the body is decoded whatever the status
CallDescribeGlobal ==
    \E resp \in ReadResponses :
      LET req == [Request("GET",
                          TrimRightSlash(client.instanceURL)
                            \o <<"/", "services", "/", "data", "/", "v">>
                            \o client.apiVersion \o <<"/", "sobjects">>,
                          BNone, <<"Bearer ">> \o client.sessionID)
                    EXCEPT !.contentType = "application/json; charset=UTF-8"]
          r == IF ~resp.arrived
               THEN Outcome(obj, objNil, client, "return", "nil", TransportError,
                            <<req>>, resp)
               ELSE IF UnmarshalMeta(resp.body) # NoErr
               THEN Outcome(obj, objNil, client, "return", "nil", UnmarshalMeta(resp.body),
                            <<req>>, resp)
               ELSE Outcome(obj, objNil, client, "return", "meta", NoErr, <<req>>, resp)
      IN  /\ edition \in ClientEditions
          /\ Finish("DescribeGlobal", <<>>, r)

\* client.DownloadFile(contentVersionID, filepath): download; created says
\* whether the file could be made and written
CallDownloadFile ==
    \E resp \in {Resp(200, BText(Str("surprise!")))} \cup Failures, created \in BOOLEAN :
      LET req == [Request("GET",
                          TrimRightSlash(client.instanceURL)
                            \o <<"/", "services", "/", "data", "/", "v">>
                            \o client.apiVersion
                            \o <<"/", "sobjects", "/", "ContentVersion", "/", "068X", "/",
                                 "VersionData">>,
                          BNone, <<"Bearer ">> \o client.sessionID)
                    EXCEPT !.contentType = "application/json; charset=UTF-8"]
          r == IF ~resp.arrived
               THEN Outcome(obj, objNil, client, "return", "none", TransportError,
                            <<req>>, resp)
               ELSE IF resp.status < 200 \/ resp.status > 299
               THEN Outcome(obj, objNil, client, "return", "none",
                            ErrorsNew(<<"ERROR: statuscode: ", ToString(resp.status),
                                        ", body: ">> \o BodyText(resp.body)),
                            <<req>>, resp)
               ELSE IF ~created
               THEN Outcome(obj, objNil, client, "return", "none",
                            [e |-> "os.PathError"], <<req>>, resp)
               ELSE Outcome(obj, objNil, client, "return", "none", NoErr, <<req>>, resp)
      IN  /\ edition \in ClientEditions
          /\ Finish("DownloadFile", <<Str("068X")>>, r)

\* the session as constructed, and a record of type Case made for it; in
\* the edition with Upsert also one that names its external id
InitSession ==
    /\ edition \in Editions
    /\ obj \in CASE edition = "sobject" -> {Client_SObject(VClient, Str("Case"))}
                 [] edition = "p12" ->
                      { Client_SObject(VClient, Str("Case")),
                        MapPut(MapPut(Client_SObject(VClient, Str("Case")),
                                      sobjectExternalIDFieldNameKey, VStr(Str("B"))),
                               "B", VStr(Str("x"))) }
                 [] OTHER -> {setType(EmptyMap, Str("Case"))}
    /\ objNil = FALSE
    /\ client = IF edition = "http"
                THEN NewHTTPClient(InstanceURL \o <<"/">>, DefaultAPIVersion_http)
                ELSE NewClient(DefaultURL \o <<"/">>, DefaultAPIVersion)
    /\ last = [NoCall EXCEPT !.preClient = client]
    /\ pc = <<>>

\* every operation of the session and of its records; Query is given an
\* SOQL string or the service's continuation path
SpecSession ==
    InitSession /\
    [][\/ SetSidLoc({InstanceURL})
       \/ LoginPassword
       \/ Tooling
       \/ UnTooling
       \/ QueryWith({Str("SELECT"), ServicePage}, QueryResponses)
       \/ CallApexREST
       \/ CallExecuteAnonymous
       \/ CallDescribeGlobal
       \/ CallDownloadFile
       \/ CallDescribe
       \/ CallGet
       \/ CallCreate
       \/ CallUpdate
       \/ CallUpsert
       \/ CallDelete
       \/ CallDescribeSObject
       \/ CallCreateSObject
       \/ CallGetSObject
       \/ CallUpdateSObject
       \/ CallUpsertSObject
       \/ CallDeleteSObject]_vars


\* the operations of a session and of the records made for it
SessionOps == {"Query", "ApexREST", "ExecuteAnonymous", "DescribeGlobal", "DownloadFile"}
AuthenticationFailure(err) ==
    err.e = "sentinel" /\ err.msg = Str("authentication failure")

\* C15, as stated: while the session holds no session token, every
\* operation of the session and of its records is refused with the
\* authentication failure and sends no request
C15_AsStated ==
    (/\ edition \in ClientEditions
     /\ last.op \in SessionOps \cup RecordOps
     /\ last.preClient.sessionID = EmptyStr)
      => /\ last.out = "return"
         /\ AuthenticationFailure(last.err)
         /\ last.reqs = <<>>


\* the last call was a Query with an SOQL string or a record's Create, Get,
\* Update, Upsert or Delete, and it sent a request
CrudOps == {"Create", "Get", "Update", "Upsert", "Delete"}
TargetsTooling(req) == "tooling" \in Range(req.url)

\* C18, as stated: while the tooling mode of the session is on, the
\* request of a Query and of every Create, Get, Update, Upsert and Delete
\* goes to a path under the tooling prefix; while it is off, none does
C18_AsStated ==
    (/\ edition \in ClientEditions
     /\ \/ last.op \in CrudOps
        \/ last.op = "Query" /\ Continuation = EmptyStr
     /\ Len(last.reqs) = 1)
      => (TargetsTooling(last.reqs[1]) <=> last.preClient.useToolingAPI)

\* the transport succeeded and the body is text that is no JSON at all
UndecodableAnswer ==
    /\ Len(last.reqs) = 1
    /\ last.resp.arrived
    /\ last.resp.status \in 200..299
    /\ last.resp.body.k = "text"

DecodeError(err) == err.e \in {"json.SyntaxError", "json.UnmarshalTypeError"}

\* C19, as stated: when the answer is 2xx and its body does not decode,
\* Get, Create, Describe and Query return a decode error, never a nil
\* result with a nil error, and the error is no classified remote failure
C19_AsStated ==
    (last.op \in {"Get", "Create", "Describe", "Query"} /\ UndecodableAnswer)
      => /\ last.out = "return"
         /\ last.err # NoErr
         /\ DecodeError(last.err)


\* the server refused the one request of the last call
Refused ==
    /\ Len(last.reqs) = 1
    /\ last.resp.arrived
    /\ last.resp.status \notin 200..299

\* err is what the classifier makes of the refusal, as it is or wrapped
\* together with the status code
Classified(err) ==
    LET theError == ParseSalesforceError(last.resp.status, last.resp.body)
    IN  /\ theError.k = "return"
        /\ \/ err = theError.err
           \/ err.e = "wrapError" /\ err.err = theError.err

\* C20, as stated: a call of Query, Describe, Get, Create, Update, Upsert,
\* Delete or ApexREST sends at most one request, and when the server
\* refuses it the call returns the classified error without a second
\* request
C20_AsStated ==
    (last.op \in RecordOps \cup {"Query", "ApexREST"})
      => /\ Len(last.reqs) <= 1
         /\ Refused => (last.out = "return" /\ Classified(last.err))


\* the last call of a record's method was refused before any request: the
\* record had no type, no session or no identity
LocalFailure ==
    /\ last.op \in RecordOps
    /\ last.out = "return"
    /\ last.reqs = <<>>
    /\ last.err # NoErr

\* what the classifier can return for a refusal of the server
ClassifierErrors ==
    {ParseSalesforceError(s, b) : s \in StatusCodes, b \in ErrorBodies}

\* C21, as stated: the error returned for a missing type, session or
\* identity equals no error that the classifier returns for a non-2xx
\* response
C21_AsStated ==
    LocalFailure => Returned(last.err) \notin ClassifierErrors


\* C23, as stated: for a body that decodes as JSON and has no first
\* element, the array [] or null, the classifier does not fault and
\* returns an error
C23_AsStated ==
    (/\ last.op = "ParseSalesforceError"
     /\ last.args[2] \in {BJson(VArr(<<>>)), BJson(Nil)})
      => /\ last.out = "return"
         /\ last.err # NoErr

\* the entry under attributes is no well-formed pair of a type and a url:
\* it is missing, no map, a map without type or url, or a map whose type
\* or url is no string
MalformedAttributes(o) ==
    LET a == InterfaceField(o, SobjectAttributesKey)
    IN  \/ a.t \notin {"map", "SObjectAttributes"}
        \/ /\ a.t = "map"
           /\ \/ MapGet(a.m, "type").t # "string"
              \/ MapGet(a.m, "url").t # "string"

\* C24, as stated: whatever is stored under attributes, AttributesField
\* and Type do not fault, and malformed attributes read as absent:
\* AttributesField is nil and Type is the empty string
C24_AsStated ==
    ~objNil
      => /\ AttributesField(obj).k # "panic"
         /\ MalformedAttributes(obj)
              => (AttributesField(obj).k = "nil" /\ Type(obj) = EmptyStr)


\* the record is bound to the session
Bound == ~objNil /\ HasClient(obj)

\* C22, as stated: a record bound to the session stays bound to it
\* through every Set of a field and every Get, Create, Update, Upsert and
\* Delete
C22_AsStated ==
    [][(/\ edition \in ClientEditions
        /\ Bound
        /\ last'.op \in CrudOps \cup {"Set"})
         => Bound']_vars


\* the last Get, Create, Update or Upsert failed: it faulted, returned an
\* error, or returned nil
WriteOrGetFailed ==
    /\ last.op \in {"Get", "Create", "Update", "Upsert"}
    /\ \/ last.out = "panic"
       \/ last.err # NoErr
       \/ last.ret = "nil"

CallMakeURL ==
    \E req \in {<<"sobjects", "/", "Case">>, <<"/", "sobjects", "/", "Case">>,
                 <<"sobjects", "/", "Case", "/", "describe">>,
                 <<"tooling", "/", "sobjects", "/", "Case", "/", "500X">>} :
      LET u == IF edition = "http"
               THEN [client |-> client, url |-> makeURL_http(client, req)]
               ELSE makeURL(client, req)
      IN  /\ client' = u.client
          /\ last' = Call("makeURL", <<req>>, obj, objNil, client,
                          Outcome(obj, objNil, u.client, "return", "url", NoErr,
                                  <<>>, NoResp)) @@ [url |-> u.url]
          /\ UNCHANGED <<edition, obj, objNil, pc>>

\* NewClient and NewHTTPClient with an endpoint with and without a trailing
\* "/"; the Client with the version written "54.0" and "v54.0"
InitURL ==
    /\ edition \in Editions
    /\ obj = EmptyMap
    /\ objNil = FALSE
    /\ \E url \in {DefaultURL, DefaultURL \o <<"/">>} :
         client \in IF edition = "http"
                    THEN {NewHTTPClient(url, DefaultAPIVersion_http)}
                    ELSE {NewClient(url, v) : v \in {DefaultAPIVersion,
                                                     <<"v">> \o DefaultAPIVersion}}
    /\ last = [NoCall EXCEPT !.preClient = client] @@ [url |-> EmptyStr]
    /\ pc = <<>>

SpecURL ==
    InitURL /\
    [][\/ SetSidLoc({InstanceURL, InstanceURL \o <<"/">>})
       \/ Tooling
       \/ UnTooling
       \/ CallMakeURL]_vars

\* the last call was makeURL
MakeURLCall == last.op = "makeURL"

\* C25, as stated: makeURL leaves every field of the session, the stored
\* API version included, as it was
C25_AsStated ==
    MakeURLCall => client = last.preClient

\* s has two "/" in a row somewhere after the "//" that follows the scheme
DoubledSeparator(s) ==
    \E i \in 1..(Len(s) - 1) :
      /\ s[i] = "/"
      /\ s[i + 1] = "/"
      /\ ~(i = 2 /\ s[1] = "https:")

\* C26, as stated: whatever the endpoint and the fragment, the URL made by
\* makeURL has no doubled path separator after the scheme
C26_AsStated ==
    MakeURLCall => ~DoubledSeparator(last.url)

(***************************************************************************)
(* Two callers that share one session.  Caller A switches the session to   *)
(* the tooling interface for one Query and back; caller B only queries.    *)
(* No lock orders the calls, so the steps interleave freely.               *)
(***************************************************************************)
Programs == [A |-> <<"Tooling", "Query", "UnTooling">>, B |-> <<"Query", "Query">>]

\* the next call of one caller's program.  Query reads useToolingAPI once,
\* when it formats the url.  The read is ordered after the caller's own
\* writes; a write of another caller is not ordered with it, so once another
\* caller has written the field the read returns either value.
CallerStep ==
    \E c \in DOMAIN pc :
      /\ client.sessionID # EmptyStr
      /\ pc[c] <= Len(Programs[c])
      /\ pc' = [pc EXCEPT ![c] = @ + 1]
      /\ UNCHANGED <<edition, obj, objNil>>
      /\ LET op == Programs[c][pc[c]]
             seen == IF \E d \in DOMAIN pc \ {c} : \E i \in 1..(pc[d] - 1) :
                          Programs[d][i] \in {"Tooling", "UnTooling"}
                     THEN BOOLEAN
                     ELSE {client.useToolingAPI}
         IN  IF op = "Query"
             THEN \E resp \in {Resp(200, BJson(QueryBody)), Resp(200, BText(Str("surprise!"))),
                               ConnFail},
                     flag \in seen :
                    /\ client' = client
                    /\ last' = Call("Query", <<Str("SELECT"), EmptyStr>>, obj, objNil,
                                    client,
                                    Client_Query(obj, objNil,
                                                 [client EXCEPT !.useToolingAPI = flag],
                                                 Str("SELECT"), resp))
                               @@ [caller |-> c]
             ELSE /\ client' = [client EXCEPT !.useToolingAPI = (op = "Tooling")]
                  /\ last' = Call(op, <<>>, obj, objNil, client,
                                  Outcome(obj, objNil, client', "return", "none", NoErr,
                                          <<>>, NoResp))
                             @@ [caller |-> c]

\* the session as constructed; both callers at the start of their programs
InitShared ==
    /\ edition \in ClientEditions
    /\ obj = EmptyMap
    /\ objNil = FALSE
    /\ client = NewClient(DefaultURL \o <<"/">>, DefaultAPIVersion)
    /\ last = [NoCall EXCEPT !.preClient = client] @@ [caller |-> "main"]
    /\ pc = [c \in DOMAIN Programs |-> 1]

\* the session is given its token and instance before the callers start
SpecShared ==
    InitShared /\
    [][\/ (\A c \in DOMAIN pc : pc[c] = 1) /\ SetSidLoc({InstanceURL})
       \/ CallerStep]_vars

\* C27, as stated: in every interleaving, a Query of the caller that never
\* switches the tooling mode on goes to the standard query path
C27_AsStated ==
    (/\ last.op = "Query"
     /\ last.caller = "B"
     /\ Len(last.reqs) = 1)
      => ~TargetsTooling(last.reqs[1])

\* the last call was a Get that sent its request and reported success
GetSucceeded ==
    /\ last.op = "Get"
    /\ last.out = "return"
    /\ last.err = NoErr
    /\ last.ret # "nil"
    /\ Len(last.reqs) = 1

\* the fields of the response to the last call: those of a JSON object,
\* none for any other body
ResponseFields ==
    IF last.resp.body.k = "json" /\ last.resp.body.v.t = "map"
    THEN last.resp.body.v.m
    ELSE EmptyMap

\* C29, as stated: after a successful Get every field of the response is in
\* the record with the response's value, and every field the record had
\* that is not in the response has kept its value
C29_AsStated ==
    GetSucceeded =>
      /\ \A x \in DOMAIN ResponseFields :
           x \in DOMAIN obj /\ obj[x] = ResponseFields[x]
      /\ \A x \in (DOMAIN last.pre) \ (DOMAIN ResponseFields) :
           x \in DOMAIN obj /\ obj[x] = last.pre[x]

\* the last call was a LoginPassword that returned, without or with an error
LoginReturned(withError) ==
    /\ last.op = "LoginPassword"
    /\ last.out = "return"
    /\ (last.err # NoErr) = withError

\* C30, as stated: when LoginPassword returns no error the session holds a
\* token, so the Query that follows is not rejected with ErrAuthentication;
\* when LoginPassword returns an error it leaves the token and the instance
\* endpoint of the session as they were
C30_AsStated ==
    [][/\ LoginReturned(TRUE)' =>
            /\ client'.sessionID = client.sessionID
            /\ client'.instanceURL = client.instanceURL
       /\ (LoginReturned(FALSE) /\ last'.op = "Query") =>
            /\ client.sessionID # EmptyStr
            /\ last'.err # ErrAuthentication]_vars

====
